---- MODULE Spec2Model ----
(***************************************************************************)
(* Terrain-aware camera orbit controllers of the refuge detail view.       *)
(*                                                                         *)
(* Four class-based controllers (OrbitController, OrbitCamera,             *)
(* CinematicOrbit, SmoothCameraOrbit) and the closure-based orbit of       *)
(* components/RefugeModal.jsx, together with the effect of the detail view *)
(* that creates, pauses, resumes and disposes them.                        *)
(*                                                                         *)
(* Units: lengths in centimetres, angles in millidegrees, time in          *)
(* milliseconds, zoom in tenths of a zoom level, easing progress in        *)
(* per-mille.  JavaScript numbers are modelled in fixed point; division    *)
(* truncates toward zero as noted at each use.                             *)
(***************************************************************************)
EXTENDS Integers, FiniteSets, Sequences, TLC

VARIABLES
    orbit,      \* the controller object (fields of the class instance)
    host,       \* the map: zoom, bearing, running native transition, handlers
    camera,     \* the free-camera pose last applied to the map
    rafQueue,   \* pending requestAnimationFrame callbacks
    timers,     \* pending setTimeout callbacks
    nextId,     \* next handle returned by requestAnimationFrame / setTimeout
    now,        \* performance.now() / Date.now()
    view,       \* closure variables of the detail view's effect
    hist        \* history flags: what has been called so far (observation only)

vars == <<orbit, host, camera, rafQueue, timers, nextId, now, view, hist>>

-----------------------------------------------------------------------------
(* Bounds of the exploration *)

MaxHandles == 4     \* handles requestAnimationFrame / setTimeout give out
MaxViewHandles == 6 \* the same, in a run of the detail view
MaxTime == 12000    \* the clock stops advancing here

(* null / undefined of the source: a value outside every numeric domain *)
NoValue == 0 - 1000000000

(* host inputs *)
ZoomValues == {85, 140, 141, 170}          \* map.getZoom(), tenths
HostBearings == {0 - 90000, 0, 45000}      \* map.getBearing(), millidegrees
TerrainSamples == {NoValue, 0, 250000}     \* map.queryTerrainElevation(), cm
FrameGaps == {16, 5000}                    \* real time between two frames
IdlePeriod == 5000                         \* a stretch without any callback
Lateness == {0, 2900}                      \* delay of a timer beyond its due time

-----------------------------------------------------------------------------
(* JavaScript arithmetic *)

Max(a, b) == IF a >= b THEN a ELSE b
Min(a, b) == IF a <= b THEN a ELSE b
Abs(a) == IF a >= 0 THEN a ELSE 0 - a

\* x / d of two numbers, rounded toward zero
TruncDiv(a, d) == IF a >= 0 THEN a \div d ELSE 0 - ((0 - a) \div d)

\* the % operator: the result takes the sign of the dividend
JsMod(a, m) == IF a >= 0 THEN a % m ELSE 0 - ((0 - a) % m)

FP == 100 * 100     \* fixed-point one of Math.pow results

\* c^(n/10) for n >= 0, c given as c^(1/10) in fixed point: tenths one at a
\* time, whole powers ten tenths at a time
RECURSIVE PowT(_, _, _)
PowT(c, n, step) ==
    IF n = 0 THEN FP
    ELSE IF n >= 10 /\ step = 10
         THEN (PowT(c, n - 10, 10) * PowT(c, 10, 1) + FP \div 2) \div FP
         ELSE (PowT(c, n - 1, 1) * c + FP \div 2) \div FP

\* Math.pow(b, e/10) where c is b^(1/10) in fixed point
Pow(c, e) == IF e >= 0 THEN PowT(c, e, 10) ELSE (FP * FP) \div PowT(c, 0 - e, 10)

Root15 == 10414     \* 1.5^(1/10)
Root145 == 10379    \* 1.45^(1/10)
Root155 == 10448    \* 1.55^(1/10)
Root12 == 10184     \* 1.2^(1/10)

\* base(m) * Math.pow(b, 14 - zoom), in cm
ZoomScale(baseM, c, zoom) == (baseM * Pow(c, 140 - zoom)) \div (FP \div 100)

-----------------------------------------------------------------------------
(* Easing functions, argument and result in per-mille *)

\* sin(pi*u) for u in [0,1] (Bhaskara's rational approximation, exact at
\* 0, 1/2 and 1), standing for Math.cos / Math.sin of the source
SinPi(u) == (16 * u * (1000 - u)) \div ((5000000 - 4 * u * (1000 - u)) \div 1000)

\* cos(pi*t) for t in [0,1]
CosPi(t) == IF t <= 500 THEN SinPi(500 - t) ELSE 0 - SinPi(t - 500)

easeInOutSine(t) == (1000 - CosPi(t)) \div 2

easeOutQuart(t) ==
    LET q == 1000 - t
        q2 == (q * q) \div 1000
    IN  1000 - (q2 * q2) \div 1000

\* easeSpiral() whose middle segment starts at 0.2 instead of 0.15
easeSpiral_gap(t) ==
    IF t < 300 THEN (150 * easeInOutSine((t * 1000) \div 300)) \div 1000
    ELSE IF t < 700 THEN 200 + ((t - 300) * 1750) \div 1000
    ELSE 850 + (150 * easeOutQuart(((t - 700) * 1000) \div 300)) \div 1000

easeSpiral(t) ==
    IF t < 300 THEN (150 * easeInOutSine((t * 1000) \div 300)) \div 1000
    ELSE IF t < 700 THEN 150 + ((t - 300) * 1750) \div 1000
    ELSE 850 + (150 * easeOutQuart(((t - 700) * 1000) \div 300)) \div 1000

\* SmoothCameraOrbit.easeInOutCubic
easeInOutCubic(t) ==
    IF t < 500 THEN (4 * t * t * t) \div 1000000
    ELSE LET u == 2000 - 2 * t
         IN  1000 - ((u * u * u) \div 1000000) \div 2

-----------------------------------------------------------------------------
(* The controller object.  One record shape serves the four classes; a     *)
(* field a class does not have keeps its blank value.                      *)

Classes == {"OrbitController", "OrbitCamera", "CinematicOrbit", "SmoothCameraOrbit"}

Blank ==
    [cls |-> "none", disposed |-> FALSE, phase |-> "idle", isRunning |-> FALSE,
     isPaused |-> FALSE, animationFrame |-> 0, lastTimestamp |-> NoValue,
     bearing |-> 0, radius |-> 0, height |-> 0, groundElevation |-> 0,
     targetRadius |-> 0, targetHeight |-> 0, lastZoom |-> 0,
     introPhase |-> "pending", introStartTime |-> NoValue,
     pitch |-> 0, currentAltitude |-> 0, introProgress |-> 0]

NoPose ==
    [applied |-> FALSE, cls |-> "none", camZ |-> 0, lookAtZ |-> 0, bearing |-> 0,
     radius |-> 0, sample |-> NoValue, ground |-> 0, at |-> 0]

\* result of a frame callback: the object, the pose handed to the map (or
\* NoPose) and whether the next frame was requested
Ran(o, pose, again) == [o |-> o, pose |-> pose, again |-> again]

-----------------------------------------------------------------------------
(* class OrbitController *)

OC_maxSmoothing == 100     \* Math.min(dt * 2, 0.1), thousandths
OC_orbitSpeed == 10         \* degrees per second
OC_minClearance == 10000    \* 100 m
OC_maxWait == 3000
OC_pollInterval == 100
OC_settleDelay == 50
OC_endZoom == 145
OC_introTurn == 45000

NewOrbitController ==
    [Blank EXCEPT !.cls = "OrbitController", !.radius = 30000, !.height = 20000]

OC_queryElevation(o, sample) ==
    IF o.disposed THEN o.groundElevation
    ELSE IF sample # NoValue THEN sample ELSE o.groundElevation

OC_refreshGroundElevation(o, sample) ==
    LET elev == OC_queryElevation(o, sample)
    IN  IF elev > 0 THEN [o EXCEPT !.groundElevation = elev] ELSE o

minRadius == 8000       \* Math.max(80, ...), OrbitController and CinematicOrbit
maxRadius == 200000     \* Math.min(r, 2000)

OC_radiusForZoom(zoom) == Max(minRadius, Min(ZoomScale(220, Root15, zoom), maxRadius))

OC_heightForRadius(r) == (r * 6) \div 10

OC_computeCameraPosition(o, sample) ==
    LET terrainAtCam == OC_queryElevation(o, sample)
        lookAtZ == o.groundElevation + 1000
        desiredZ == o.groundElevation + o.height
        minZ == Max(terrainAtCam, o.groundElevation) + OC_minClearance
    IN  [applied |-> TRUE, cls |-> o.cls, camZ |-> Max(desiredZ, minZ),
         lookAtZ |-> lookAtZ, bearing |-> o.bearing, radius |-> o.radius,
         sample |-> sample, ground |-> o.groundElevation, at |-> 0]

OC_applyFreeCamera(o, sample) ==
    IF o.disposed THEN NoPose ELSE OC_computeCameraPosition(o, sample)

\* tick() without the 0.1 s cap on the frame's time step
OC_tick_uncapped(o, timestamp, refresh, sampleTarget, sampleCam, zoom) ==
    IF o.disposed \/ o.phase # "orbit" THEN Ran(o, NoPose, FALSE)
    ELSE
    LET lastTs == IF o.lastTimestamp = NoValue THEN timestamp ELSE o.lastTimestamp
        dt == timestamp - lastTs
        o1 == IF refresh THEN OC_refreshGroundElevation(o, sampleTarget) ELSE o
        targetRadius == OC_radiusForZoom(zoom)
        r == o1.radius
             + TruncDiv((targetRadius - o1.radius) * Min(dt * 2, OC_maxSmoothing), 1000)
        o2 == [o1 EXCEPT !.lastTimestamp = timestamp,
                         !.radius = r,
                         !.height = OC_heightForRadius(r),
                         !.bearing = IF o1.isPaused THEN o1.bearing
                                     ELSE JsMod(o1.bearing + OC_orbitSpeed * dt, 360000)]
    IN  Ran(o2, OC_applyFreeCamera(o2, sampleCam), TRUE)

OC_tick(o, timestamp, refresh, sampleTarget, sampleCam, zoom) ==
    IF o.disposed \/ o.phase # "orbit" THEN Ran(o, NoPose, FALSE)
    ELSE
    LET lastTs == IF o.lastTimestamp = NoValue THEN timestamp ELSE o.lastTimestamp
        dt == Min(timestamp - lastTs, 100)
        o1 == IF refresh THEN OC_refreshGroundElevation(o, sampleTarget) ELSE o
        targetRadius == OC_radiusForZoom(zoom)
        r == o1.radius
             + TruncDiv((targetRadius - o1.radius) * Min(dt * 2, OC_maxSmoothing), 1000)
        o2 == [o1 EXCEPT !.lastTimestamp = timestamp,
                         !.radius = r,
                         !.height = OC_heightForRadius(r),
                         !.bearing = IF o1.isPaused THEN o1.bearing
                                     ELSE JsMod(o1.bearing + OC_orbitSpeed * dt, 360000)]
    IN  Ran(o2, OC_applyFreeCamera(o2, sampleCam), TRUE)

OC_pause(o) == [o EXCEPT !.isPaused = TRUE]

\* resume() that keeps the timestamp of the last frame
OC_resume_keepTimestamp(o) == [o EXCEPT !.isPaused = FALSE]

OC_resume(o) == [o EXCEPT !.isPaused = FALSE, !.lastTimestamp = NoValue]

\* dispose() without the cancelAnimationFrame call, which the action makes
OC_dispose(o) == [o EXCEPT !.disposed = TRUE, !.phase = "idle", !.animationFrame = 0]

-----------------------------------------------------------------------------
(* class OrbitCamera *)

CAM_orbitSpeed == 8         \* degrees per second
CAM_minClearance == 8000    \* 80 m
CAM_smoothing == 30          \* 0.03 per frame
CAM_settleDelay == 100       \* setTimeout(..., 100) after moveend
CAM_flyBearing == 30000      \* const bearing = 30
CAM_flyZoom == 145           \* const zoom = 14.5
CAM_firstPoll == 500         \* setTimeout(waitForTerrain, 500)
CAM_pollInterval == 100      \* setTimeout(waitForTerrain, 100)

NewOrbitCamera(groundElevation) ==
    [Blank EXCEPT !.cls = "OrbitCamera", !.groundElevation = groundElevation,
                  !.radius = 30000, !.height = 20000]

CAM_sampleTerrain(o, sample) == IF sample # NoValue THEN sample ELSE o.groundElevation

CAM_refreshGroundElevation(o, sample) ==
    LET elev == CAM_sampleTerrain(o, sample)
    IN  IF elev > 0 THEN [o EXCEPT !.groundElevation = elev] ELSE o

CAM_radiusForZoom(zoom) == Max(10000, Min(ZoomScale(240, Root15, zoom), 200000))

CAM_heightForRadius(r) == (r * 65) \div 100

CAM_applyCamera(o, sample) ==
    LET terrainAtCam == CAM_sampleTerrain(o, sample)
        baseAltitude == o.groundElevation + o.height
        minAltitude == terrainAtCam + CAM_minClearance
    IN  [applied |-> TRUE, cls |-> o.cls, camZ |-> Max(baseAltitude, minAltitude),
         lookAtZ |-> o.groundElevation + 1000, bearing |-> o.bearing,
         radius |-> o.radius, sample |-> sample, ground |-> o.groundElevation, at |-> 0]

CAM_tick(o, time, refresh, sampleTarget, sampleCam, zoom) ==
    IF ~o.isRunning THEN Ran(o, NoPose, FALSE)
    ELSE
    LET lastTime == IF o.lastTimestamp = NoValue THEN time ELSE o.lastTimestamp
        dt == Min(time - lastTime, 100)
        o1 == IF refresh THEN CAM_refreshGroundElevation(o, sampleTarget) ELSE o
        targetRadius == CAM_radiusForZoom(zoom)
        r == o1.radius + TruncDiv((targetRadius - o1.radius) * CAM_smoothing, 1000)
        o2 == [o1 EXCEPT !.lastTimestamp = time,
                         !.radius = r,
                         !.height = CAM_heightForRadius(r),
                         !.bearing = IF o1.isPaused THEN o1.bearing
                                     ELSE JsMod(o1.bearing + CAM_orbitSpeed * dt, 360000)]
    IN  Ran(o2, CAM_applyCamera(o2, sampleCam), TRUE)

\* start(initialBearing) up to the requestAnimationFrame call
CAM_start(o, initialBearing, zoom) ==
    [o EXCEPT !.bearing = initialBearing,
              !.radius = CAM_radiusForZoom(zoom),
              !.height = CAM_heightForRadius(CAM_radiusForZoom(zoom)),
              !.isRunning = TRUE,
              !.lastTimestamp = NoValue]

CAM_stop(o) == [o EXCEPT !.isRunning = FALSE, !.animationFrame = 0]

CAM_pause(o) == [o EXCEPT !.isPaused = TRUE]

CAM_resume(o) == [o EXCEPT !.isPaused = FALSE, !.lastTimestamp = NoValue]

-----------------------------------------------------------------------------
(* class CinematicOrbit *)

CIN_orbitSpeed == 80            \* 0.08 degrees per frame
CIN_radiusSmoothing == 15       \* 0.015 per frame
CIN_heightSmoothing == 15
CIN_minClearance == 6000        \* 60 m
CIN_introDuration == 4000
CIN_startRadius == 5000         \* 50 m
CIN_startHeight == 140000       \* 1400 m
CIN_introSweep == 540           \* degrees turned during the intro
CIN_zoomThreshold == 1          \* 0.1 zoom level

updateGroundElevation(o, sample) ==
    IF sample # NoValue THEN [o EXCEPT !.groundElevation = sample] ELSE o

NewCinematicOrbit(zoom, sample) ==
    updateGroundElevation(
        [Blank EXCEPT !.cls = "CinematicOrbit", !.radius = 80000, !.height = 40000,
                      !.targetRadius = 30000, !.targetHeight = 20000,
                      !.lastZoom = zoom],
        sample)

CIN_getTerrainElevation(o, sample) ==
    IF sample # NoValue THEN sample ELSE o.groundElevation

computeRadiusForZoom(zoom) == Max(minRadius, Min(ZoomScale(260, Root145, zoom), maxRadius))

computeHeightForRadius(radius) == (radius * 7) \div 10

\* the pose without the clamp above the terrain under the camera
CIN_computeCameraPosition_unclamped(o, sample) ==
    [applied |-> TRUE, cls |-> o.cls, camZ |-> o.groundElevation + o.height,
     lookAtZ |-> o.groundElevation + 800, bearing |-> o.bearing,
     radius |-> o.radius, sample |-> sample, ground |-> o.groundElevation, at |-> 0]

CIN_computeCameraPosition(o, sample) ==
    LET terrainAtCam == CIN_getTerrainElevation(o, sample)
        desiredCamZ == o.groundElevation + o.height
    IN  [applied |-> TRUE, cls |-> o.cls,
         camZ |-> Max(desiredCamZ, terrainAtCam + CIN_minClearance),
         lookAtZ |-> o.groundElevation + 800, bearing |-> o.bearing,
         radius |-> o.radius, sample |-> sample, ground |-> o.groundElevation, at |-> 0]

\* tickIntro(now) that ends the intro short of the targets and leaves the
\* bearing as the spiral gives it
tickIntro_short(o, t) ==
    LET o1 == IF o.introStartTime = NoValue \/ o.introStartTime = 0
              THEN [o EXCEPT !.introStartTime = t, !.radius = CIN_startRadius,
                             !.height = CIN_startHeight, !.bearing = 0]
              ELSE o
        elapsed == t - o1.introStartTime
        rawProgress == Min((elapsed * 1000) \div CIN_introDuration, 1000)
        radiusProgress == easeOutQuart((rawProgress * 9) \div 10)
        heightProgress == easeInOutSine((rawProgress * 9) \div 10)
        b == easeSpiral(rawProgress) * CIN_introSweep
    IN  [o1 EXCEPT
            !.radius = CIN_startRadius
                       + TruncDiv((o1.targetRadius - CIN_startRadius) * radiusProgress, 1000),
            !.height = CIN_startHeight
                       + TruncDiv((o1.targetHeight - CIN_startHeight) * heightProgress, 1000),
            !.bearing = b,
            !.introPhase = IF rawProgress >= 1000 THEN "complete" ELSE o1.introPhase]

tickIntro(o, t) ==
    LET o1 == IF o.introStartTime = NoValue \/ o.introStartTime = 0
              THEN [o EXCEPT !.introStartTime = t, !.radius = CIN_startRadius,
                             !.height = CIN_startHeight, !.bearing = 0]
              ELSE o
        elapsed == t - o1.introStartTime
        rawProgress == Min((elapsed * 1000) \div CIN_introDuration, 1000)
        radiusProgress == easeOutQuart(rawProgress)
        heightProgress == easeInOutSine(rawProgress)
        bearingProgress == easeSpiral(rawProgress)
        b == bearingProgress * CIN_introSweep
    IN  [o1 EXCEPT
            !.radius = CIN_startRadius
                       + TruncDiv((o1.targetRadius - CIN_startRadius) * radiusProgress, 1000),
            !.height = CIN_startHeight
                       + TruncDiv((o1.targetHeight - CIN_startHeight) * heightProgress, 1000),
            !.bearing = IF rawProgress >= 1000 THEN JsMod(b, 360000) ELSE b,
            !.introPhase = IF rawProgress >= 1000 THEN "complete" ELSE o1.introPhase]

\* checkZoomChange() that never sees a change
checkZoomChange_never(o, currentZoom) == o

\* checkZoomChange() that measures each change from the zoom of the frame before
checkZoomChange_fromPrevious(o, currentZoom) ==
    IF Abs(currentZoom - o.lastZoom) > CIN_zoomThreshold
    THEN [o EXCEPT !.lastZoom = currentZoom,
                   !.targetRadius = computeRadiusForZoom(currentZoom),
                   !.targetHeight = computeHeightForRadius(computeRadiusForZoom(currentZoom))]
    ELSE [o EXCEPT !.lastZoom = currentZoom]

checkZoomChange(o, currentZoom) ==
    IF Abs(currentZoom - o.lastZoom) > CIN_zoomThreshold
    THEN [o EXCEPT !.lastZoom = currentZoom,
                   !.targetRadius = computeRadiusForZoom(currentZoom),
                   !.targetHeight = computeHeightForRadius(computeRadiusForZoom(currentZoom))]
    ELSE o

\* tickOrbit() without the early return while paused
tickOrbit_ignorePause(o, zoom) ==
    LET o1 == checkZoomChange(o, zoom)
    IN  [o1 EXCEPT
            !.radius = o1.radius
                       + TruncDiv((o1.targetRadius - o1.radius) * CIN_radiusSmoothing, 1000),
            !.height = o1.height
                       + TruncDiv((o1.targetHeight - o1.height) * CIN_heightSmoothing, 1000),
            !.bearing = JsMod(o1.bearing + CIN_orbitSpeed, 360000)]

tickOrbit(o, zoom) ==
    IF o.isPaused THEN o
    ELSE
    LET o1 == checkZoomChange(o, zoom)
    IN  [o1 EXCEPT
            !.radius = o1.radius
                       + TruncDiv((o1.targetRadius - o1.radius) * CIN_radiusSmoothing, 1000),
            !.height = o1.height
                       + TruncDiv((o1.targetHeight - o1.height) * CIN_heightSmoothing, 1000),
            !.bearing = JsMod(o1.bearing + CIN_orbitSpeed, 360000)]

\* tick that holds the intro while the controller is paused
CIN_tick_pausedIntro(o, t, refresh, sampleTarget, sampleCam, zoom) ==
    IF ~o.isRunning THEN Ran(o, NoPose, FALSE)
    ELSE
    LET o1 == IF refresh THEN updateGroundElevation(o, sampleTarget) ELSE o
        o2 == IF o1.introPhase = "running" /\ ~o1.isPaused THEN tickIntro(o1, t)
              ELSE IF o1.introPhase = "complete" THEN tickOrbit(o1, zoom)
              ELSE o1
    IN  Ran(o2, CIN_computeCameraPosition(o2, sampleCam), TRUE)

CIN_tick(o, t, refresh, sampleTarget, sampleCam, zoom) ==
    IF ~o.isRunning THEN Ran(o, NoPose, FALSE)
    ELSE
    LET o1 == IF refresh THEN updateGroundElevation(o, sampleTarget) ELSE o
        o2 == IF o1.introPhase = "running" THEN tickIntro(o1, t)
              ELSE IF o1.introPhase = "complete" THEN tickOrbit(o1, zoom)
              ELSE o1
    IN  Ran(o2, CIN_computeCameraPosition(o2, sampleCam), TRUE)

\* start() up to the requestAnimationFrame call
CIN_start(o, zoom) ==
    [o EXCEPT !.targetRadius = computeRadiusForZoom(zoom),
              !.targetHeight = computeHeightForRadius(computeRadiusForZoom(zoom)),
              !.lastZoom = zoom,
              !.isRunning = TRUE,
              !.introPhase = "running"]

CIN_stop(o) == [o EXCEPT !.isRunning = FALSE, !.animationFrame = 0]

CIN_pause(o) == [o EXCEPT !.isPaused = TRUE]

CIN_resume(o) == [o EXCEPT !.isPaused = FALSE]

skipIntro(o) ==
    IF o.introPhase = "running"
    THEN [o EXCEPT !.introPhase = "complete", !.radius = o.targetRadius,
                   !.height = o.targetHeight, !.bearing = 0]
    ELSE o

-----------------------------------------------------------------------------
(* class SmoothCameraOrbit *)

SCO_orbitSpeed == 150           \* 0.15 degrees per frame
SCO_introSpeed == 225           \* orbitSpeed * 1.5
SCO_minTerrainClearance == 8000 \* 80 m
SCO_introDuration == 2200
SCO_startPitch == 88000
SCO_targetPitch == 52000
SCO_startAlt == 140000          \* 1400 m
SCO_altSmoothing == 80          \* 0.08 per frame
SCO_lookAtOffset == 1200        \* 12 m

SCO_updateGroundElevation(o, sample) ==
    IF sample # NoValue THEN [o EXCEPT !.groundElevation = sample] ELSE o

NewSmoothCameraOrbit(sample) ==
    SCO_updateGroundElevation(
        [Blank EXCEPT !.cls = "SmoothCameraOrbit", !.pitch = SCO_startPitch,
                      !.currentAltitude = 120000],
        sample)

getIdealAltitudeForZoom(zoom) == Max(10000, Min(ZoomScale(300, Root155, zoom), 300000))

getTerrainAt(o, sample) == IF sample # NoValue THEN sample ELSE o.groundElevation

computeCameraState(o, sample) ==
    LET terrainAtCam == getTerrainAt(o, sample)
        lookAtZ == o.groundElevation + SCO_lookAtOffset
        desiredCamZ == lookAtZ + o.currentAltitude
    IN  [applied |-> TRUE, cls |-> o.cls,
         camZ |-> Max(desiredCamZ, terrainAtCam + SCO_minTerrainClearance),
         lookAtZ |-> lookAtZ, bearing |-> o.bearing, radius |-> 0,
         sample |-> sample, ground |-> o.groundElevation, at |-> 0]

SCO_tick(o, t, refresh, sampleTarget, sampleCam, zoom) ==
    IF ~o.isRunning THEN Ran(o, NoPose, FALSE)
    ELSE
    LET idealAlt == getIdealAltitudeForZoom(zoom)
        startTime == IF o.introStartTime = NoValue \/ o.introStartTime = 0
                     THEN t ELSE o.introStartTime
        progress == Min(((t - startTime) * 1000) \div SCO_introDuration, 1000)
        eased == easeOutQuart(progress)
        o1 == IF o.introProgress < 1000
              THEN [o EXCEPT
                      !.introStartTime = startTime,
                      !.introProgress = progress,
                      !.pitch = SCO_startPitch
                                - ((SCO_startPitch - SCO_targetPitch) * eased) \div 1000,
                      !.currentAltitude = SCO_startAlt
                                + TruncDiv((idealAlt - SCO_startAlt) * eased, 1000),
                      !.bearing = JsMod(o.bearing + SCO_introSpeed, 360000)]
              ELSE IF ~o.isPaused
              THEN [o EXCEPT
                      !.currentAltitude = o.currentAltitude
                                + TruncDiv((idealAlt - o.currentAltitude) * SCO_altSmoothing, 1000),
                      !.bearing = JsMod(o.bearing + SCO_orbitSpeed, 360000),
                      !.pitch = SCO_targetPitch]
              ELSE o
        o2 == IF refresh THEN SCO_updateGroundElevation(o1, sampleTarget) ELSE o1
    IN  Ran(o2, computeCameraState(o2, sampleCam), TRUE)

SCO_start(o) == [o EXCEPT !.isRunning = TRUE]

SCO_stop(o) == [o EXCEPT !.isRunning = FALSE, !.animationFrame = 0]

SCO_pause(o) == [o EXCEPT !.isPaused = TRUE]

SCO_resume(o) == [o EXCEPT !.isPaused = FALSE]

-----------------------------------------------------------------------------
(* Dispatch on the class of the object *)

tick(o, t, refresh, sampleTarget, sampleCam, zoom) ==
    CASE o.cls = "OrbitController" -> OC_tick(o, t, refresh, sampleTarget, sampleCam, zoom)
      [] o.cls = "OrbitCamera" -> CAM_tick(o, t, refresh, sampleTarget, sampleCam, zoom)
      [] o.cls = "CinematicOrbit" -> CIN_tick(o, t, refresh, sampleTarget, sampleCam, zoom)
      [] o.cls = "SmoothCameraOrbit" -> SCO_tick(o, t, refresh, sampleTarget, sampleCam, zoom)
      [] OTHER -> Ran(o, NoPose, FALSE)

pause(o) ==
    CASE o.cls = "OrbitController" -> OC_pause(o)
      [] o.cls = "OrbitCamera" -> CAM_pause(o)
      [] o.cls = "CinematicOrbit" -> CIN_pause(o)
      [] o.cls = "SmoothCameraOrbit" -> SCO_pause(o)
      [] OTHER -> o

\* resume() that leaves the controller as it is
resume_stillPaused(o) == o

resume(o) ==
    CASE o.cls = "OrbitController" -> OC_resume(o)
      [] o.cls = "OrbitCamera" -> CAM_resume(o)
      [] o.cls = "CinematicOrbit" -> CIN_resume(o)
      [] o.cls = "SmoothCameraOrbit" -> SCO_resume(o)
      [] OTHER -> o

\* stop() of the three classes that have one
stop(o) ==
    CASE o.cls = "OrbitCamera" -> CAM_stop(o)
      [] o.cls = "CinematicOrbit" -> CIN_stop(o)
      [] o.cls = "SmoothCameraOrbit" -> SCO_stop(o)
      [] OTHER -> o

\* dispose(): OrbitController sets its flag, the others call stop()
dispose(o) == IF o.cls = "OrbitController" THEN OC_dispose(o) ELSE stop(o)

-----------------------------------------------------------------------------
(* The start() of OrbitController: an async function with three suspension *)
(* points (terrain poll, host easeTo, settle delay)                        *)

\* waitForTerrain without the disposed test of its loop body
OC_waitForTerrainStep_noFlag(o, start, t, sample) ==
    IF t - start >= OC_maxWait
    THEN [o |-> [o EXCEPT !.groundElevation = 0], sleep |-> FALSE]
    ELSE IF OC_queryElevation(o, sample) > 0
    THEN [o |-> [o EXCEPT !.groundElevation = OC_queryElevation(o, sample)],
          sleep |-> FALSE]
    ELSE [o |-> o, sleep |-> TRUE]

\* one iteration of the while loop of waitForTerrain, entered at time t
OC_waitForTerrainStep(o, start, t, sample) ==
    IF t - start >= OC_maxWait
    THEN [o |-> [o EXCEPT !.groundElevation = 0], sleep |-> FALSE]
    ELSE IF o.disposed THEN [o |-> o, sleep |-> FALSE]
    ELSE IF OC_queryElevation(o, sample) > 0
    THEN [o |-> [o EXCEPT !.groundElevation = OC_queryElevation(o, sample)],
          sleep |-> FALSE]
    ELSE [o |-> o, sleep |-> TRUE]

\* start() after waitForTerrain has returned, up to the easeTo call
OC_startAfterWait(o, startBearing) ==
    IF o.disposed THEN o
    ELSE [o EXCEPT !.bearing = startBearing + OC_introTurn,
                   !.radius = OC_radiusForZoom(OC_endZoom),
                   !.height = OC_heightForRadius(OC_radiusForZoom(OC_endZoom))]

\* the setTimeout callback of onMoveEnd, up to the requestAnimationFrame call
OC_enterOrbit(o, sample, hostBearing) ==
    [OC_refreshGroundElevation(o, sample) EXCEPT
        !.bearing = hostBearing, !.phase = "orbit", !.lastTimestamp = NoValue]

-----------------------------------------------------------------------------
(* Scheduling primitives *)

Raf(id, fn) == [id |-> id, fn |-> fn]
Timer(id, kind, due, t0) == [id |-> id, kind |-> kind, due |-> due, t0 |-> t0]

\* cancelAnimationFrame(handle) / clearTimeout(handle)
Cancel(queue, handle) == {e \in queue : e.id # handle}

\* the timer that fires next: none pending is due earlier
IsNextTimer(tm) == tm \in timers /\ \A other \in timers : tm.due <= other.due

\* delays and periods of the detail view's effect
CTL_idle == 3000             \* setTimeout(() => orbit.resume(), 3000)
CAM_idle == 3000             \* setTimeout(() => orbit.resume(), 3000)
CIN_idle == 3500             \* setTimeout(() => orbit.resume(), 3500)
CIN_startDelay == 600        \* setTimeout(() => { new CinematicOrbit ... }, 600)
CLO_idle == 5000             \* setTimeout(startOrbit, 5000)
CLO_orbitStartDelay == 1000  \* orbitStartTimeout
CLO_introDuration == 1400    \* animateCameraTransition(targetCamera, 1400, ...)
CLO_reframeDuration == 800   \* animateCameraTransition(cameraPosition, 800, ...)
CLO_orbitStep == 150         \* getBearing() + 0.15
CLO_warmupZoom == 150        \* zoom: 15 of the terrain analysis
CLO_safetyMargin == 6000     \* safetyMargin: 60
CLO_sinPitch == 866          \* sin(60 degrees), pitch: 60
CLO_minDistance == 18000     \* Math.max(..., 180)
CLO_maxDistance == 140000    \* Math.min(..., 1400)

idlePeriodOf(variant) ==
    CASE variant = "controller" -> CTL_idle
      [] variant = "camera" -> CAM_idle
      [] variant = "cinematic" -> CIN_idle
      [] OTHER -> CLO_idle

\* resetIdleTimer() that leaves the previous timer pending
resetIdleTimer_keepPrevious(pending, handle, id, t, period) ==
    pending \cup {Timer(id, "idle", t + period, t)}

\* resetIdleTimer() at time t: clearTimeout(idleTimeout), then setTimeout
resetIdleTimer(pending, handle, id, t, period) ==
    Cancel(pending, handle) \cup {Timer(id, "idle", t + period, t)}

\* closure variables of the detail view's effect; variant "none" when the
\* controller is driven by another client
NoView ==
    [variant |-> "none", isCleanedUp |-> FALSE, mapInstance |-> FALSE,
     orbitRef |-> FALSE, idleTimeout |-> 0, orbitStartTimeout |-> 0,
     animationFrame |-> 0, cameraTransitionFrame |-> 0,
     transitionStart |-> 0, transitionDuration |-> 0, onFinish |-> "none",
     fromZ |-> 0, toZ |-> 0,
     terrainReady |-> FALSE, modelReady |-> FALSE, analyzedTerrain |-> FALSE,
     elevation |-> 0, loading |-> FALSE]

\* handles a run may give out
HandleLimit == IF view.variant = "none" THEN MaxHandles ELSE MaxViewHandles

-----------------------------------------------------------------------------
(* Actions on the controller, called by any client of the class *)

\* easeTo(...) / flyTo(...) followed by once('moveend', fn)
HostEaseTo(id, fn, endBearing, endZoom) ==
    [host EXCEPT !.moving = TRUE, !.endBearing = endBearing, !.endZoom = endZoom,
                 !.moveend = host.moveend \cup {Raf(id, fn)}]

\* start() of the OrbitController o.  The handle taken here names the call:
\* its poll timer, its moveend handler and its settle timer carry it.
StartOrbitControllerOn(o, sample) ==
    /\ nextId <= HandleLimit
    /\ IF o.disposed
       THEN /\ orbit' = o
            /\ UNCHANGED <<host, timers, nextId>>
       ELSE LET w == OC_waitForTerrainStep([o EXCEPT !.phase = "intro"], now, now, sample)
            IN  /\ nextId' = nextId + 1
                /\ IF w.sleep
                   THEN /\ orbit' = w.o
                        /\ timers' = timers
                              \cup {Timer(nextId, "poll", now + OC_pollInterval, now)}
                        /\ UNCHANGED host
                   ELSE /\ orbit' = OC_startAfterWait(w.o, host.bearing)
                        /\ host' = HostEaseTo(nextId, "onMoveEnd",
                                              host.bearing + OC_introTurn, OC_endZoom)
                        /\ UNCHANGED timers

StartOrbitController(sample) ==
    /\ orbit.cls = "OrbitController"
    /\ StartOrbitControllerOn(orbit, sample)
    /\ UNCHANGED <<camera, rafQueue, now, view, hist>>

\* the setTimeout(r, 100) of waitForTerrain fires: next loop iteration and,
\* when the loop ends, the rest of start() up to once('moveend')
PollTerrain(tm, late, sample) ==
    /\ IsNextTimer(tm) /\ tm.kind = "poll"
    /\ Max(now, tm.due) + late <= MaxTime
    /\ now' = Max(now, tm.due) + late
    /\ LET w == OC_waitForTerrainStep(orbit, tm.t0, now', sample)
       IN  IF w.sleep
           THEN /\ orbit' = w.o
                /\ timers' = (timers \ {tm})
                             \cup {Timer(tm.id, "poll", now' + OC_pollInterval, tm.t0)}
                /\ UNCHANGED host
           ELSE /\ orbit' = OC_startAfterWait(w.o, host.bearing)
                /\ timers' = timers \ {tm}
                /\ host' = IF w.o.disposed THEN host
                           ELSE HostEaseTo(tm.id, "onMoveEnd",
                                           host.bearing + OC_introTurn, OC_endZoom)
    /\ UNCHANGED <<camera, rafQueue, nextId, view, hist>>

\* the timer a moveend handler arms: onMoveEnd of OrbitController.start(), the
\* handler of performIntroAnimation, the handler of the closure variant
TimerOf(reg) ==
    CASE reg.fn = "onMoveEnd" -> Timer(reg.id, "settle", now + OC_settleDelay, now)
      [] reg.fn = "introMoveEnd" -> Timer(reg.id, "introDone", now + CAM_settleDelay, now)
      [] OTHER -> Timer(reg.id, "orbitStart", now + CLO_orbitStartDelay, now)

\* the host ends its transition, finished or interrupted by the user, and
\* emits moveend; every handler a controller registered with once() runs
HostMoveEnd(completed, b) ==
    /\ host.moving
    /\ \A reg \in host.moveend : reg.fn # "orbitStartMoveEnd"
    /\ host' = [host EXCEPT !.moving = FALSE, !.moveend = {},
                            !.bearing = IF completed THEN host.endBearing ELSE b,
                            !.zoom = IF completed THEN host.endZoom ELSE host.zoom]
    /\ timers' = timers \cup {TimerOf(reg) :
                    reg \in {m \in host.moveend : m.fn = "onMoveEnd" => ~orbit.disposed}}
    /\ UNCHANGED <<orbit, camera, rafQueue, nextId, now, view, hist>>

\* the setTimeout(..., 50) callback of onMoveEnd
Settle(tm, late, sample) ==
    /\ IsNextTimer(tm) /\ tm.kind = "settle"
    /\ Max(now, tm.due) + late <= MaxTime
    /\ now' = Max(now, tm.due) + late
    /\ timers' = timers \ {tm}
    /\ nextId <= HandleLimit
    /\ IF orbit.disposed
       THEN /\ UNCHANGED <<orbit, rafQueue, nextId>>
       ELSE /\ orbit' = [OC_enterOrbit(orbit, sample, host.bearing) EXCEPT
                            !.animationFrame = nextId]
            /\ rafQueue' = rafQueue \cup {Raf(nextId, "tick")}
            /\ nextId' = nextId + 1
    /\ hist' = IF orbit.disposed THEN hist ELSE [hist EXCEPT !.resume = "started"]
    /\ UNCHANGED <<host, camera, view>>

StartBearings == {0, 30000}     \* start(initialBearing = 0), called with 30

\* start() of the OrbitCamera / CinematicOrbit / SmoothCameraOrbit o
StartLoopOn(o, initialBearing, zoom) ==
    /\ nextId <= HandleLimit
    /\ IF o.isRunning
       THEN /\ orbit' = o
            /\ UNCHANGED <<host, rafQueue, nextId>>
       ELSE /\ host' = [host EXCEPT !.zoom = zoom]
            /\ orbit' = [(CASE o.cls = "OrbitCamera" -> CAM_start(o, initialBearing, zoom)
                            [] o.cls = "CinematicOrbit" -> CIN_start(o, zoom)
                            [] OTHER -> SCO_start(o))
                         EXCEPT !.animationFrame = nextId]
            /\ rafQueue' = rafQueue \cup {Raf(nextId, "tick")}
            /\ nextId' = nextId + 1

StartLoop(initialBearing, zoom) ==
    /\ orbit.cls \in {"OrbitCamera", "CinematicOrbit", "SmoothCameraOrbit"}
    /\ StartLoopOn(orbit, initialBearing, zoom)
    /\ hist' = IF orbit.isRunning THEN hist ELSE [hist EXCEPT !.resume = "started"]
    /\ UNCHANGED <<camera, timers, now, view>>

\* the browser runs a pending frame callback of the controller; zoom is what
\* map.getZoom() returns in it
Frame(h, gap, refresh, sampleTarget, sampleCam, zoom) ==
    /\ h \in rafQueue /\ h.fn = "tick"
    /\ nextId <= HandleLimit
    /\ now + gap <= MaxTime
    /\ now' = now + gap
    /\ host' = [host EXCEPT !.zoom = zoom]
    /\ \E res \in {tick(orbit, now + gap, refresh, sampleTarget, sampleCam, zoom)} :
          /\ orbit' = IF res.again THEN [res.o EXCEPT !.animationFrame = nextId]
                      ELSE res.o
          /\ rafQueue' = (rafQueue \ {h})
                         \cup (IF res.again THEN {Raf(nextId, "tick")} ELSE {})
          /\ nextId' = IF res.again THEN nextId + 1 ELSE nextId
          /\ camera' = IF res.pose.applied THEN [res.pose EXCEPT !.at = now + gap]
                       ELSE camera
          /\ hist' = CASE res.pose.applied /\ hist.resume = "resumed" ->
                              [hist EXCEPT !.resume = "framed"]
                       [] res.pose.applied /\ hist.resume = "started" ->
                              [hist EXCEPT !.resume = "none"]
                       [] OTHER -> hist
    /\ UNCHANGED <<timers, view>>

Pause ==
    /\ orbit' = pause(orbit)
    /\ hist' = [hist EXCEPT !.resume = "none"]
    /\ UNCHANGED <<host, camera, rafQueue, timers, nextId, now, view>>

Resume ==
    /\ orbit' = resume(orbit)
    /\ hist' = IF orbit.isPaused THEN [hist EXCEPT !.resume = "resumed"] ELSE hist
    /\ UNCHANGED <<host, camera, rafQueue, timers, nextId, now, view>>

Stop ==
    /\ orbit.cls \in {"OrbitCamera", "CinematicOrbit", "SmoothCameraOrbit"}
    /\ orbit' = stop(orbit)
    /\ rafQueue' = Cancel(rafQueue, orbit.animationFrame)
    /\ hist' = [hist EXCEPT !.resume = "none"]
    /\ UNCHANGED <<host, camera, timers, nextId, now, view>>

\* the browser runs no callback for a while (a throttled or hidden page)
Idle ==
    /\ now + IdlePeriod <= MaxTime
    /\ now' = now + IdlePeriod
    /\ UNCHANGED <<orbit, host, camera, rafQueue, timers, nextId, view, hist>>

SkipIntro ==
    /\ orbit.cls = "CinematicOrbit"
    /\ orbit' = skipIntro(orbit)
    /\ UNCHANGED <<host, camera, rafQueue, timers, nextId, now, view, hist>>

Dispose ==
    /\ orbit' = dispose(orbit)
    /\ rafQueue' = Cancel(rafQueue, orbit.animationFrame)
    /\ hist' = [hist EXCEPT !.disposed = TRUE, !.resume = "none"]
    /\ UNCHANGED <<host, camera, timers, nextId, now, view>>

-----------------------------------------------------------------------------
(* The detail view's effect: the variants of the modal that own a controller *)

\* "controller" owns an OrbitController, "camera" an OrbitCamera, "cinematic"
\* a CinematicOrbit; "closure" orbits with functions of the effect itself
Variants == {"controller", "camera", "cinematic", "closure"}

\* map.getBearing() after map.setBearing(b): the host keeps (-180, 180]
Wrap180(b) ==
    LET m == b % 360000 IN IF m > 180000 THEN m - 360000 ELSE m

computeOrbitDistance(zoom) ==
    Min(Max(ZoomScale(420, Root12, zoom), CLO_minDistance), CLO_maxDistance)

\* buildCameraPosition(): the altitude of the camera and the bearing
buildCameraPosition(bearing, zoom, sampleTarget) ==
    LET elevation == (IF sampleTarget = NoValue THEN 0 ELSE sampleTarget) + CLO_safetyMargin
        verticalDistance == (computeOrbitDistance(zoom) * CLO_sinPitch) \div 1000
    IN  [applied |-> TRUE, cls |-> "closure", camZ |-> elevation + verticalDistance,
         lookAtZ |-> elevation, bearing |-> bearing, radius |-> computeOrbitDistance(zoom),
         sample |-> sampleTarget, ground |-> 0, at |-> 0]

\* t * t * (3 - 2 * t), in thousandths
smoothStep(t) == (((t * t) \div 1000) * (3000 - 2 * t)) \div 1000

\* the view once setup() has built the map and the load handler waits for
\* the model
NewView(variant) ==
    [NoView EXCEPT !.variant = variant, !.mapInstance = TRUE, !.loading = TRUE]

\* animateCameraTransition(nextPosition, duration, onFinish) at time t, in
\* view v with frame callbacks queue pending
AnimateCameraTransition(v, queue, t, toZ, duration, onFinish) ==
    /\ rafQueue' = Cancel(queue, v.cameraTransitionFrame) \cup {Raf(nextId, "step")}
    /\ view' = [v EXCEPT !.cameraTransitionFrame = nextId,
                         !.transitionStart = t, !.transitionDuration = duration,
                         !.fromZ = IF camera.applied THEN camera.camZ ELSE toZ,
                         !.toZ = toZ, !.onFinish = onFinish]
    /\ nextId' = nextId + 1

\* tryStartAnimation() without its test of terrainReady and modelReady
TryStartAnimation_unguarded(v, sample) ==
    IF ~v.mapInstance
    THEN /\ view' = v
         /\ UNCHANGED <<host, nextId>>
    ELSE /\ view' = [v EXCEPT !.elevation = IF sample = NoValue THEN 0 ELSE sample]
         /\ host' = HostEaseTo(nextId, "introMoveEnd", CAM_flyBearing, CAM_flyZoom)
         /\ nextId' = nextId + 1

\* tryStartAnimation() and the performIntroAnimation() it calls, in view v
TryStartAnimation(v, sample) ==
    IF ~v.terrainReady \/ ~v.modelReady \/ ~v.mapInstance
    THEN /\ view' = v
         /\ UNCHANGED <<host, nextId>>
    ELSE /\ view' = [v EXCEPT !.elevation = IF sample = NoValue THEN 0 ELSE sample]
         /\ host' = HostEaseTo(nextId, "introMoveEnd", CAM_flyBearing, CAM_flyZoom)
         /\ nextId' = nextId + 1

\* the model load of the map's load handler settles; after the cleanup the
\* handler stops at its first call into the removed map
ModelLoaded(ok, sample) ==
    /\ view.loading
    /\ nextId <= HandleLimit
    /\ CASE view.variant = "controller" ->
              IF view.isCleanedUp \/ ~view.mapInstance
              THEN /\ view' = [view EXCEPT !.loading = FALSE]
                   /\ UNCHANGED <<orbit, host, timers, nextId>>
              ELSE /\ StartOrbitControllerOn(NewOrbitController, sample)
                   /\ view' = [view EXCEPT !.loading = FALSE, !.orbitRef = TRUE]
         [] view.variant = "camera" ->
              /\ TryStartAnimation([view EXCEPT !.loading = FALSE, !.modelReady = TRUE],
                                   sample)
              /\ UNCHANGED <<orbit, timers>>
         [] view.variant = "cinematic" ->
              /\ view' = [view EXCEPT !.loading = FALSE]
              /\ IF ok /\ ~hist.cleaned
                 THEN /\ timers' = timers \cup
                            {Timer(nextId, "delayedStart", now + CIN_startDelay, now)}
                      /\ nextId' = nextId + 1
                 ELSE UNCHANGED <<timers, nextId>>
              /\ UNCHANGED <<orbit, host>>
         [] OTHER ->
              IF ok /\ ~hist.cleaned
              THEN /\ view' = [view EXCEPT !.loading = FALSE, !.analyzedTerrain = TRUE]
                   /\ host' = HostEaseTo(nextId, "orbitStartMoveEnd", host.bearing,
                                         CLO_warmupZoom)
                   /\ nextId' = nextId + 1
                   /\ UNCHANGED <<orbit, timers>>
              ELSE /\ view' = [view EXCEPT !.loading = FALSE]
                   /\ UNCHANGED <<orbit, host, timers, nextId>>
    /\ UNCHANGED <<camera, rafQueue, now, hist>>

\* waitForTerrain() of the "camera" variant, run by its timer
WaitForTerrain(tm, late, sample) ==
    /\ IsNextTimer(tm) /\ tm.kind = "waitForTerrain"
    /\ nextId <= HandleLimit
    /\ Max(now, tm.due) + late <= MaxTime
    /\ now' = Max(now, tm.due) + late
    /\ IF ~view.mapInstance
       THEN /\ timers' = timers \ {tm}
            /\ UNCHANGED <<view, host, nextId>>
       ELSE IF sample # NoValue
       THEN /\ timers' = timers \ {tm}
            /\ TryStartAnimation([view EXCEPT !.terrainReady = TRUE], sample)
       ELSE /\ timers' = (timers \ {tm}) \cup
                  {Timer(tm.id, "waitForTerrain",
                         Max(now, tm.due) + late + CAM_pollInterval, tm.t0)}
            /\ UNCHANGED <<view, host, nextId>>
    /\ UNCHANGED <<orbit, camera, rafQueue, hist>>

\* the setTimeout(..., 100) of performIntroAnimation: onComplete(bearing, elevation)
IntroDone(tm) ==
    /\ IsNextTimer(tm) /\ tm.kind = "introDone"
    /\ Max(now, tm.due) <= MaxTime
    /\ now' = Max(now, tm.due)
    /\ timers' = timers \ {tm}
    /\ IF ~view.mapInstance
       THEN UNCHANGED <<orbit, host, rafQueue, nextId, view>>
       ELSE /\ StartLoopOn(NewOrbitCamera(view.elevation), CAM_flyBearing, host.zoom)
            /\ view' = [view EXCEPT !.orbitRef = TRUE]
    /\ UNCHANGED <<camera, hist>>

\* the setTimeout(..., 600) of the "cinematic" variant
DelayedStart(tm, sample) ==
    /\ IsNextTimer(tm) /\ tm.kind = "delayedStart"
    /\ Max(now, tm.due) <= MaxTime
    /\ now' = Max(now, tm.due)
    /\ timers' = timers \ {tm}
    /\ StartLoopOn(NewCinematicOrbit(host.zoom, sample), 0, host.zoom)
    /\ view' = [view EXCEPT !.orbitRef = TRUE]
    /\ UNCHANGED <<camera, hist>>

\* the warmup easeTo of the "closure" variant ends: the zoom it changed makes
\* the host emit zoomend, which runs reframeOrbitAfterZoom(), and then moveend,
\* whose handler arms orbitStartTimeout
WarmupEnd(sample) ==
    /\ host.moving
    /\ \E reg \in host.moveend : reg.fn = "orbitStartMoveEnd"
    /\ nextId <= HandleLimit
    /\ host' = [host EXCEPT !.moving = FALSE, !.moveend = {},
                            !.bearing = host.endBearing, !.zoom = host.endZoom]
    /\ LET reg == CHOOSE r \in host.moveend : r.fn = "orbitStartMoveEnd"
           v == [view EXCEPT !.orbitStartTimeout = reg.id]
       IN  /\ timers' = timers \cup {TimerOf(reg)}
           /\ IF host.endZoom = host.zoom \/ ~view.mapInstance \/ ~view.analyzedTerrain
              THEN /\ view' = v
                   /\ UNCHANGED <<rafQueue, nextId>>
              ELSE AnimateCameraTransition([v EXCEPT !.animationFrame = 0],
                       Cancel(rafQueue, view.animationFrame), now,
                       buildCameraPosition(host.endBearing, host.endZoom, sample).camZ,
                       CLO_reframeDuration, "reframe")
    /\ UNCHANGED <<orbit, camera, now, hist>>

\* orbitStartTimeout of the "closure" variant
OrbitStart(tm, sample) ==
    /\ IsNextTimer(tm) /\ tm.kind = "orbitStart"
    /\ nextId <= HandleLimit
    /\ Max(now, tm.due) <= MaxTime
    /\ now' = Max(now, tm.due)
    /\ timers' = timers \ {tm}
    /\ IF ~view.mapInstance
       THEN UNCHANGED <<rafQueue, view, nextId>>
       ELSE AnimateCameraTransition(view, rafQueue, Max(now, tm.due),
                buildCameraPosition(host.bearing, CLO_warmupZoom, sample).camZ,
                CLO_introDuration, "start")
    /\ UNCHANGED <<orbit, host, camera, hist>>

\* startOrbit() followed or preceded by resetIdleTimer() at time t, in view v
\* with frame callbacks queue pending: two handles, the frame's and the timer's
StartOrbitAndIdle(v, queue, t) ==
    /\ rafQueue' = Cancel(queue, v.animationFrame) \cup {Raf(nextId, "orbit")}
    /\ timers' = resetIdleTimer(timers, v.idleTimeout, nextId + 1, t, CLO_idle)
    /\ view' = [v EXCEPT !.animationFrame = nextId, !.idleTimeout = nextId + 1]
    /\ nextId' = nextId + 2

\* step() of animateCameraTransition, run as a frame callback
StepFrame(h, gap) ==
    /\ h \in rafQueue /\ h.fn = "step"
    /\ nextId + 1 <= HandleLimit
    /\ now + gap <= MaxTime
    /\ now' = now + gap
    /\ LET t == Min(1000, ((now + gap - view.transitionStart) * 1000)
                              \div view.transitionDuration)
           z == view.fromZ + TruncDiv((view.toZ - view.fromZ) * smoothStep(t), 1000)
       IN  /\ camera' = [NoPose EXCEPT !.applied = TRUE, !.cls = "closure", !.camZ = z,
                                       !.bearing = host.bearing, !.at = now + gap]
           /\ IF t < 1000
              THEN /\ rafQueue' = (rafQueue \ {h}) \cup {Raf(nextId, "step")}
                   /\ view' = [view EXCEPT !.cameraTransitionFrame = nextId]
                   /\ nextId' = nextId + 1
                   /\ UNCHANGED timers
              ELSE StartOrbitAndIdle([view EXCEPT !.cameraTransitionFrame = 0],
                                     rafQueue \ {h}, now + gap)
    /\ UNCHANGED <<orbit, host, hist>>

\* handleUserInteraction(event) of the "closure" variant at time t, in view v
\* with frame callbacks queue and timers pending; id is the next handle and
\* original tells whether the event carries originalEvent
handleUserInteraction(v, queue, pending, id, t, original) ==
    IF ~original
    THEN [view |-> v, rafQueue |-> queue, timers |-> pending, nextId |-> id]
    ELSE [view |-> [v EXCEPT !.idleTimeout = id, !.animationFrame = 0,
                             !.cameraTransitionFrame = 0],
          rafQueue |-> Cancel(Cancel(queue, v.animationFrame), v.cameraTransitionFrame),
          timers |-> resetIdleTimer(pending, v.idleTimeout, id, t, CLO_idle),
          nextId |-> id + 1]

\* orbit() of the "closure" variant, run as a frame callback; sample is what
\* queryTerrainElevation(selectedLocation) returns, under the terrain below the
\* position the camera is put at, which orbit() does not read.  The events
\* setFreeCameraOptions and setBearing emit carry no originalEvent and reach
\* handleUserInteraction before the next frame is requested.
OrbitFrame(h, gap, sample, under) ==
    /\ h \in rafQueue /\ h.fn = "orbit"
    /\ nextId <= HandleLimit
    /\ now + gap <= MaxTime
    /\ now' = now + gap
    /\ IF ~view.mapInstance \/ ~view.analyzedTerrain
       THEN /\ rafQueue' = rafQueue \ {h}
            /\ UNCHANGED <<camera, host, view, nextId, timers>>
       ELSE LET nextBearing == JsMod(host.bearing + CLO_orbitStep, 360000)
                e == handleUserInteraction(view, rafQueue \ {h}, timers, nextId,
                                           now + gap, FALSE)
            IN  /\ camera' = [buildCameraPosition(nextBearing, host.zoom, sample)
                                 EXCEPT !.at = now', !.sample = under]
                /\ host' = [host EXCEPT !.bearing = Wrap180(nextBearing)]
                /\ rafQueue' = e.rafQueue \cup {Raf(e.nextId, "orbit")}
                /\ timers' = e.timers
                /\ view' = [e.view EXCEPT !.animationFrame = e.nextId]
                /\ nextId' = e.nextId + 1
    /\ UNCHANGED <<orbit, hist>>

\* the map ends a zoom at zoom: reframeOrbitAfterZoom(), the zoomend handler
\* of the "closure" variant
ZoomEnd(zoom, sample) ==
    /\ view.variant = "closure" /\ ~hist.cleaned
    /\ nextId <= HandleLimit
    /\ host' = [host EXCEPT !.zoom = zoom]
    /\ IF ~view.mapInstance \/ ~view.analyzedTerrain
       THEN UNCHANGED <<rafQueue, view, nextId>>
       ELSE AnimateCameraTransition([view EXCEPT !.animationFrame = 0],
                Cancel(rafQueue, view.animationFrame), now,
                buildCameraPosition(host.bearing, zoom, sample).camZ,
                CLO_reframeDuration, "reframe")
    /\ UNCHANGED <<orbit, camera, timers, now, hist>>

\* an event on the map, wait after the step before it: handleInteraction of
\* the variants that own a controller, handleUserInteraction of the "closure"
\* variant
Interaction(wait, original) ==
    /\ view.variant # "none" /\ ~hist.cleaned
    /\ nextId <= HandleLimit
    /\ now + wait <= MaxTime
    /\ now' = now + wait
    /\ IF view.variant = "closure"
       THEN \E e \in {handleUserInteraction(view, rafQueue, timers, nextId,
                                            now + wait, original)} :
               /\ view' = e.view
               /\ rafQueue' = e.rafQueue
               /\ timers' = e.timers
               /\ nextId' = e.nextId
               /\ hist' = IF original
                          THEN [hist EXCEPT !.lastInteraction = now + wait,
                                            !.byTimer = FALSE]
                          ELSE hist
               /\ UNCHANGED orbit
       ELSE IF view.variant = "controller" /\ view.isCleanedUp
       THEN UNCHANGED <<orbit, rafQueue, timers, nextId, view, hist>>
       ELSE /\ orbit' = IF view.orbitRef THEN pause(orbit) ELSE orbit
            /\ timers' = resetIdleTimer(timers, view.idleTimeout, nextId, now + wait,
                                        idlePeriodOf(view.variant))
            /\ nextId' = nextId + 1
            /\ view' = [view EXCEPT !.idleTimeout = nextId]
            /\ hist' = [hist EXCEPT !.lastInteraction = now + wait, !.byTimer = FALSE]
            /\ UNCHANGED rafQueue
    /\ UNCHANGED <<host, camera>>

\* the idle timer fires: orbitRef.current?.resume() / startOrbit()
IdleFire(tm) ==
    /\ IsNextTimer(tm) /\ tm.kind = "idle"
    /\ nextId <= HandleLimit
    /\ Max(now, tm.due) <= MaxTime
    /\ now' = Max(now, tm.due)
    /\ timers' = timers \ {tm}
    /\ CASE view.variant = "closure" ->
              /\ rafQueue' = Cancel(rafQueue, view.animationFrame)
                             \cup {Raf(nextId, "orbit")}
              /\ view' = [view EXCEPT !.animationFrame = nextId]
              /\ nextId' = nextId + 1
              /\ hist' = [hist EXCEPT !.byTimer = TRUE]
              /\ UNCHANGED orbit
         [] view.variant # "closure" /\ view.orbitRef
                 /\ ~(view.variant = "controller" /\ view.isCleanedUp) ->
              /\ orbit' = resume(orbit)
              /\ hist' = [hist EXCEPT !.byTimer = TRUE]
              /\ UNCHANGED <<rafQueue, view, nextId>>
         [] OTHER -> UNCHANGED <<orbit, rafQueue, view, nextId, hist>>
    /\ UNCHANGED <<host, camera>>

\* the cleanup the effect returns
Cleanup ==
    /\ view.variant # "none" /\ ~hist.cleaned
    /\ hist' = [hist EXCEPT !.cleaned = TRUE,
                            !.disposed = view.variant # "closure" /\ view.orbitRef]
    /\ timers' = IF view.variant = "closure"
                 THEN Cancel(Cancel(timers, view.idleTimeout), view.orbitStartTimeout)
                 ELSE Cancel(timers, view.idleTimeout)
    /\ orbit' = IF view.variant # "closure" /\ view.orbitRef THEN dispose(orbit) ELSE orbit
    /\ rafQueue' = IF view.variant = "closure"
                   THEN Cancel(Cancel(rafQueue, view.animationFrame),
                               view.cameraTransitionFrame)
                   ELSE IF view.orbitRef THEN Cancel(rafQueue, orbit.animationFrame)
                   ELSE rafQueue
    /\ view' = CASE view.variant = "controller" ->
                      [view EXCEPT !.isCleanedUp = TRUE, !.orbitRef = FALSE]
                 [] view.variant = "camera" ->
                      [view EXCEPT !.orbitRef = FALSE, !.mapInstance = FALSE]
                 [] view.variant = "cinematic" -> [view EXCEPT !.orbitRef = FALSE]
                 [] OTHER -> [view EXCEPT !.animationFrame = 0]
    /\ host' = [host EXCEPT !.moving = FALSE, !.moveend = {}]
    /\ UNCHANGED <<camera, nextId, now>>

-----------------------------------------------------------------------------
(* Frames in which a call into the host map fails *)

\* what fails in a frame: getFreeCameraOptions / setFreeCameraOptions throws,
\* getZoom throws, queryTerrainElevation throws, queryTerrainElevation
\* returns NaN
Faults == {"camera", "zoom", "elevation", "nan"}

NaN == 0 - 999999999

\* the frame callback left by an exception, the object as the callback left it
Threw(o) == Ran(o, NoPose, FALSE)

\* the pose computed with NaN for the terrain under the camera:
\* Math.max(x, NaN) is NaN
NaNPose(pose) == [pose EXCEPT !.camZ = NaN, !.sample = NaN]

\* the controller runs its frame loop
InLoop(o) ==
    IF o.cls = "OrbitController" THEN ~o.disposed /\ o.phase = "orbit"
    ELSE o.isRunning

\* OrbitController.tick when a host call fails: queryElevation catches and
\* tests isNaN, applyFreeCamera catches, getZoom is called bare
OC_tickFault(o, timestamp, fault, zoom) ==
    LET r == OC_tick(o, timestamp, FALSE, NoValue, NoValue, zoom)
    IN  CASE fault = "zoom" -> Threw([o EXCEPT !.lastTimestamp = timestamp])
          [] fault = "camera" -> Ran(r.o, NoPose, TRUE)
          [] OTHER -> r

\* OrbitCamera.tick when a host call fails: sampleTerrain catches and lets
\* NaN through, applyCamera catches, getZoom is called bare
CAM_tickFault(o, time, fault, zoom) ==
    LET r == CAM_tick(o, time, FALSE, NoValue, NoValue, zoom)
    IN  CASE fault = "zoom" -> Threw([o EXCEPT !.lastTimestamp = time])
          [] fault = "camera" -> Ran(r.o, NoPose, TRUE)
          [] fault = "nan" -> Ran(r.o, NaNPose(r.pose), TRUE)
          [] OTHER -> r

\* CinematicOrbit.tick when a host call fails: nothing catches;
\* checkZoomChange calls getZoom in steady orbit when not paused
CIN_tickFault(o, t, fault, zoom) ==
    LET r == CIN_tick(o, t, FALSE, NoValue, NoValue, zoom)
    IN  CASE fault = "zoom" ->
               IF o.introPhase = "complete" /\ ~o.isPaused THEN Threw(o) ELSE r
          [] fault = "nan" -> Ran(r.o, NaNPose(r.pose), TRUE)
          [] OTHER -> Threw(r.o)

\* SmoothCameraOrbit.tick when a host call fails: nothing catches;
\* getIdealAltitudeForZoom calls getZoom first
SCO_tickFault(o, t, fault, zoom) ==
    LET r == SCO_tick(o, t, FALSE, NoValue, NoValue, zoom)
    IN  CASE fault = "zoom" -> Threw(o)
          [] fault = "nan" -> Ran(r.o, NaNPose(r.pose), TRUE)
          [] OTHER -> Threw(r.o)

tickFault(o, t, fault, zoom) ==
    CASE o.cls = "OrbitController" -> OC_tickFault(o, t, fault, zoom)
      [] o.cls = "OrbitCamera" -> CAM_tickFault(o, t, fault, zoom)
      [] o.cls = "CinematicOrbit" -> CIN_tickFault(o, t, fault, zoom)
      [] OTHER -> SCO_tickFault(o, t, fault, zoom)

\* the browser runs a pending frame callback of a running controller and a
\* call into the map fails in it
FaultyFrame(h, gap, fault) ==
    /\ h \in rafQueue /\ h.fn = "tick"
    /\ InLoop(orbit)
    /\ nextId <= HandleLimit
    /\ now + gap <= MaxTime
    /\ now' = now + gap
    /\ \E res \in {tickFault(orbit, now + gap, fault, host.zoom)} :
          /\ orbit' = IF res.again THEN [res.o EXCEPT !.animationFrame = nextId]
                      ELSE res.o
          /\ rafQueue' = (rafQueue \ {h})
                         \cup (IF res.again THEN {Raf(nextId, "tick")} ELSE {})
          /\ nextId' = IF res.again THEN nextId + 1 ELSE nextId
          /\ camera' = IF res.pose.applied THEN [res.pose EXCEPT !.at = now + gap]
                       ELSE camera
    /\ hist' = [hist EXCEPT !.fault = fault, !.faultAt = now + gap]
    /\ UNCHANGED <<host, timers, view>>

-----------------------------------------------------------------------------
(* Specification of one controller under arbitrary calls of its API *)

InitialZoom == 140               \* zoom of the map when the controller is built
GroundValues == {0, 250000}     \* groundElevation handed to new OrbitCamera

NewHost(zoom, bearing) ==
    [zoom |-> zoom, bearing |-> bearing, moving |-> FALSE, endBearing |-> 0,
     endZoom |-> zoom, moveend |-> {}]

\* disposed: dispose() has been called; resume: "resumed" from the resume()
\* that un-pauses to the next frame that applies a pose, "framed" after it,
\* "started" from a start() that begins the steady loop to its first pose;
\* cleaned: the effect's cleanup has run; lastInteraction: when the last user
\* event was handled; byTimer: the idle timer was the last to resume or restart
\* the orbit
NoHistory ==
    [disposed |-> FALSE, resume |-> "none", cleaned |-> FALSE,
     lastInteraction |-> NoValue, byTimer |-> FALSE,
     fault |-> "none", faultAt |-> NoValue]

InitWith(bearings, grounds, samples) ==
    /\ \/ \E b \in bearings :
             /\ host = NewHost(InitialZoom, b)
             /\ orbit = NewOrbitController
       \/ /\ host = NewHost(InitialZoom, 0)
          /\ orbit \in {NewOrbitCamera(g) : g \in grounds}
                       \cup {NewCinematicOrbit(InitialZoom, s) : s \in samples}
                       \cup {NewSmoothCameraOrbit(s) : s \in samples}
    /\ camera = NoPose
    /\ rafQueue = {}
    /\ timers = {}
    /\ nextId = 1
    /\ now = 1000
    /\ view = NoView
    /\ hist = NoHistory

\* bearings start() is called with: only OrbitCamera takes one
BearingsFor(o) == IF o.cls = "OrbitCamera" THEN StartBearings ELSE {0}

NoTerrain == {NoValue}                       \* the terrain tiles never load
SlowTimer == OC_maxWait - OC_pollInterval    \* a poll this late ends the wait

\* Life cycle: every call of the API in every order and every host bearing,
\* frames at every gap; the zoom stays where the map opened and the terrain
\* tiles never load.
Init == InitWith(HostBearings, {0}, NoTerrain)

Next ==
    \/ \E s \in NoTerrain : StartOrbitController(s)
    \/ \E tm \in timers, s \in NoTerrain : PollTerrain(tm, SlowTimer, s)
    \/ \E c \in BOOLEAN, b \in HostBearings : HostMoveEnd(c, b)
    \/ \E tm \in timers, late \in Lateness, s \in NoTerrain : Settle(tm, late, s)
    \/ \E b \in BearingsFor(orbit) : StartLoop(b, host.zoom)
    \/ \E h \in rafQueue, gap \in FrameGaps :
             Frame(h, gap, FALSE, NoValue, NoValue, host.zoom)
    \/ Pause
    \/ Resume
    \/ Stop
    \/ SkipIntro
    \/ Dispose
    \/ Idle

Spec == Init /\ [][Next]_vars

\* Zoom: frames at every zoom and gap while the controller runs, is paused and
\* resumed; the terrain tiles never load.
InitZoom == InitWith({0}, {0}, NoTerrain)

NextZoom ==
    \/ \E s \in NoTerrain : StartOrbitController(s)
    \/ \E tm \in timers, s \in NoTerrain : PollTerrain(tm, SlowTimer, s)
    \/ HostMoveEnd(TRUE, 0)
    \/ \E tm \in timers, s \in NoTerrain : Settle(tm, 0, s)
    \/ \E z \in ZoomValues : StartLoop(0, z)
    \/ \E h \in rafQueue, gap \in FrameGaps, z \in ZoomValues :
             Frame(h, gap, FALSE, NoValue, NoValue, z)
    \/ Pause
    \/ Resume
    \/ SkipIntro

SpecZoom == InitZoom /\ [][NextZoom]_vars

\* Start: start() of an OrbitController, called again only when the call
\* before it has run to its end, with dispose() at every point of it;
\* the terrain polls run late or very late (the second one ends the wait), and
\* the tiles may load in between.
PollDelays == {1400, SlowTimer}

InitStart == InitWith({0}, {0}, NoTerrain) /\ orbit.cls = "OrbitController"

NextStart ==
    \/ /\ timers = {} /\ host.moveend = {}
       /\ \E s \in TerrainSamples : StartOrbitController(s)
    \/ \E tm \in timers, late \in PollDelays, s \in TerrainSamples :
             PollTerrain(tm, late, s)
    \/ \E c \in BOOLEAN, b \in HostBearings : HostMoveEnd(c, b)
    \/ \E tm \in timers, late \in Lateness, s \in TerrainSamples :
             Settle(tm, late, s)
    \/ \E h \in rafQueue, gap \in FrameGaps :
             Frame(h, gap, FALSE, NoValue, NoValue, host.zoom)
    \/ Dispose

SpecStart == InitStart /\ [][NextStart]_vars

\* Intro: a CinematicOrbit or a SmoothCameraOrbit is started and its frames
\* run at gaps that put rawProgress in every segment of the easing curves
\* and on both sides of their boundaries.
EaseGaps == {4, 400, 1196, 1200, 2796, 2800, 4000}

InitEase ==
    /\ InitWith({0}, {0}, NoTerrain)
    /\ orbit.cls \in {"CinematicOrbit", "SmoothCameraOrbit"}

NextEase ==
    \/ StartLoop(0, host.zoom)
    \/ \E h \in rafQueue, gap \in EaseGaps :
          Frame(h, gap, FALSE, NoValue, NoValue, host.zoom)

SpecEase == InitEase /\ [][NextEase]_vars

\* Zoom tracking: a CinematicOrbit runs while the user zooms the map in steps
\* of 0.1 or less from one frame to the next.
TrackZooms == {139, 140, 141, 142}

InitTrack == InitWith({0}, {0}, NoTerrain) /\ orbit.cls = "CinematicOrbit"

NextTrack ==
    \/ StartLoop(0, host.zoom)
    \/ \E h \in rafQueue, gap \in FrameGaps, z \in TrackZooms :
          /\ Abs(z - host.zoom) <= CIN_zoomThreshold
          /\ Frame(h, gap, FALSE, NoValue, NoValue, z)
    \/ Pause
    \/ Resume
    \/ SkipIntro

SpecTrack == InitTrack /\ [][NextTrack]_vars

\* Camera pose over terrain: frames with every terrain sample under the target
\* and under the camera, at the zoom the map opened with.
InitPose == InitWith({0}, GroundValues, TerrainSamples)

NextPose ==
    \/ \E s \in TerrainSamples : StartOrbitController(s)
    \/ \E tm \in timers, s \in TerrainSamples : PollTerrain(tm, SlowTimer, s)
    \/ HostMoveEnd(TRUE, 0)
    \/ \E tm \in timers, s \in TerrainSamples : Settle(tm, 0, s)
    \/ StartLoop(0, host.zoom)
    \/ \E h \in rafQueue, gap \in FrameGaps, sC \in TerrainSamples :
          \/ Frame(h, gap, FALSE, NoValue, sC, host.zoom)
          \/ \E sT \in TerrainSamples : Frame(h, gap, TRUE, sT, sC, host.zoom)
    \/ Pause
    \/ Resume

SpecPose == InitPose /\ [][NextPose]_vars

\* Host failures: frames in which a call into the map fails, among frames in
\* which none does; the zoom stays where the map opened.
FaultGaps == {16}

InitFault == InitWith({0}, {0}, NoTerrain)

NextFault ==
    \/ \E s \in NoTerrain : StartOrbitController(s)
    \/ \E tm \in timers, s \in NoTerrain : PollTerrain(tm, SlowTimer, s)
    \/ HostMoveEnd(TRUE, 0)
    \/ \E tm \in timers, s \in NoTerrain : Settle(tm, 0, s)
    \/ StartLoop(0, host.zoom)
    \/ \E h \in rafQueue, gap \in FaultGaps :
             Frame(h, gap, FALSE, NoValue, NoValue, host.zoom)
    \/ \E h \in rafQueue, gap \in FaultGaps, fault \in Faults : FaultyFrame(h, gap, fault)
    \/ Pause
    \/ Resume
    \/ SkipIntro

SpecFault == InitFault /\ [][NextFault]_vars

\* The detail view: the start path of each variant over a map whose terrain
\* may load or not, user events, the idle timer and the cleanup, with timers
\* on time unless another step ran past their due time, poll timers late.
ReactionTimes == {1000}   \* time a user event comes after the step before it
ViewGaps == {1500}        \* real time between two frames of the view
BusyDelays == {900}       \* lateness of a poll timer while tiles and model load
ViewSamples == {NoValue, 250000}

InitView ==
    /\ view \in {NewView(v) : v \in Variants}
    /\ host = NewHost(InitialZoom, 0)
    /\ orbit = Blank
    /\ camera = NoPose
    /\ rafQueue = {}
    /\ timers = IF view.variant = "camera"
                THEN {Timer(1, "waitForTerrain", 1000 + CAM_firstPoll, 1000)} ELSE {}
    /\ nextId = IF view.variant = "camera" THEN 2 ELSE 1
    /\ now = 1000
    /\ hist = NoHistory

NextView ==
    \/ \E ok \in BOOLEAN, s \in ViewSamples : ModelLoaded(ok, s)
    \/ \E tm \in timers, late \in BusyDelays, s \in ViewSamples :
          WaitForTerrain(tm, late, s)
    \/ \E tm \in timers, late \in BusyDelays, s \in ViewSamples :
          PollTerrain(tm, late, s)
    \/ HostMoveEnd(TRUE, 0)
    \/ \E s \in ViewSamples : WarmupEnd(s)
    \/ \E tm \in timers, s \in ViewSamples : Settle(tm, 0, s)
    \/ \E tm \in timers : IntroDone(tm)
    \/ \E tm \in timers, s \in ViewSamples : DelayedStart(tm, s)
    \/ \E tm \in timers, s \in ViewSamples : OrbitStart(tm, s)
    \/ \E h \in rafQueue, gap \in ViewGaps : Frame(h, gap, FALSE, NoValue, NoValue, host.zoom)
    \/ \E h \in rafQueue, gap \in ViewGaps : StepFrame(h, gap)
    \/ \E h \in rafQueue, gap \in ViewGaps : OrbitFrame(h, gap, NoValue, NoValue)
    \/ ZoomEnd(host.zoom, NoValue)
    \/ \E wait \in ReactionTimes,
          original \in (IF view.variant = "closure" THEN BOOLEAN ELSE {TRUE}) :
          Interaction(wait, original)
    \/ \E tm \in timers : IdleFire(tm)
    \/ Cleanup

SpecView == InitView /\ [][NextView]_vars

\* The detail view that stays open in a browser that runs what is scheduled:
\* a timer that is due fires, a frame of a camera transition runs and a
\* transition of the map ends, sooner or later; the user acts at any time.
IdleGap == 1500      \* real time between two frames

NextIdle ==
    \/ \E s \in ViewSamples : ModelLoaded(TRUE, s)
    \/ \E tm \in timers : WaitForTerrain(tm, 0, 250000)
    \/ \E tm \in timers, late \in BusyDelays : PollTerrain(tm, late, 250000)
    \/ HostMoveEnd(TRUE, 0)
    \/ WarmupEnd(250000)
    \/ \E tm \in timers : Settle(tm, 0, 250000)
    \/ \E tm \in timers : IntroDone(tm)
    \/ \E tm \in timers : DelayedStart(tm, 250000)
    \/ \E tm \in timers : OrbitStart(tm, 250000)
    \/ \E h \in rafQueue : Frame(h, IdleGap, FALSE, NoValue, NoValue, host.zoom)
    \/ \E h \in rafQueue : StepFrame(h, IdleGap)
    \/ \E h \in rafQueue : OrbitFrame(h, IdleGap, 250000, 250000)
    \/ ZoomEnd(host.zoom, 250000)
    \/ \E wait \in ReactionTimes : Interaction(wait, TRUE)
    \/ \E tm \in timers : IdleFire(tm)

TimerFires ==
    \E tm \in timers :
       \/ IdleFire(tm)
       \/ IntroDone(tm)
       \/ DelayedStart(tm, 250000)
       \/ OrbitStart(tm, 250000)
       \/ Settle(tm, 0, 250000)
       \/ WaitForTerrain(tm, 0, 250000)
       \/ \E late \in BusyDelays : PollTerrain(tm, late, 250000)

TransitionRuns == \E h \in rafQueue : StepFrame(h, IdleGap)

EaseEnds == HostMoveEnd(TRUE, 0) \/ WarmupEnd(250000)

SpecIdle ==
    /\ InitView
    /\ [][NextIdle]_vars
    /\ WF_vars(TimerFires) /\ WF_vars(TransitionRuns) /\ WF_vars(EaseEnds)

\* Closure variant: the detail view that orbits with the functions of its own
\* effect, for as long as it stays open: user events and user zooms at every
\* point, frames at short and long gaps, the terrain under the target loaded
\* or not, and the camera over terrain as high as the target or higher.
ClosureZooms == {120, 150}
ClosureGaps == {500, 1500}
CameraTerrain == {250000, 285000}

InitClosure == InitView /\ view.variant = "closure"

NextClosure ==
    \/ \E ok \in BOOLEAN : ModelLoaded(ok, NoValue)
    \/ \E s \in ViewSamples : WarmupEnd(s)
    \/ \E tm \in timers, s \in ViewSamples : OrbitStart(tm, s)
    \/ \E h \in rafQueue, gap \in ClosureGaps : StepFrame(h, gap)
    \/ \E h \in rafQueue, gap \in ClosureGaps, u \in CameraTerrain :
          OrbitFrame(h, gap, 250000, u)
    \/ \E z \in ClosureZooms, s \in ViewSamples : ZoomEnd(z, s)
    \/ \E wait \in ReactionTimes : Interaction(wait, TRUE)
    \/ \E tm \in timers : IdleFire(tm)

SpecClosure == InitClosure /\ [][NextClosure]_vars

-----------------------------------------------------------------------------
(* Properties *)

minClearanceOf(cls) ==
    CASE cls = "OrbitController" -> OC_minClearance
      [] cls = "OrbitCamera" -> CAM_minClearance
      [] cls = "CinematicOrbit" -> CIN_minClearance
      [] OTHER -> SCO_minTerrainClearance

\* the terrain under the camera as the controller knows it: the sample at the
\* camera position, the cached ground elevation when there is none
TerrainUnder(pose) == IF pose.sample = NoValue THEN pose.ground ELSE pose.sample

ClassControllers == {"OrbitController", "CinematicOrbit", "SmoothCameraOrbit"}

\* C1: every pose a class controller applies, in intro, steady orbit or while
\* paused, puts the camera at least minClearance above the terrain sampled
\* under the camera, or above the cached ground elevation when the sample is
\* unavailable; a sample of 0 counts as a sample.
C1_Clearance ==
    (camera.applied /\ camera.cls \in ClassControllers)
        => camera.camZ >= TerrainUnder(camera) + minClearanceOf(camera.cls)

\* a paused CinematicOrbit in steady orbit over a ridge higher than the
\* desired altitude: the clamp decides the altitude
C1_Witness ==
    /\ camera.applied /\ camera.cls = "CinematicOrbit"
    /\ camera.at = now
    /\ orbit.isPaused /\ orbit.introPhase = "complete"
    /\ camera.sample = 250000 /\ camera.ground = 0
    /\ camera.camZ = camera.sample + CIN_minClearance

\* the controller runs its steady orbit
InSteadyOrbit(o) ==
    CASE o.cls = "OrbitController" -> ~o.disposed /\ o.phase = "orbit"
      [] o.cls = "OrbitCamera" -> o.isRunning
      [] o.cls = "CinematicOrbit" -> o.isRunning /\ o.introPhase = "complete"
      [] OTHER -> o.isRunning /\ o.introProgress >= 1000

\* this step is a frame callback that applied a pose
FrameApplied == camera'.at # camera.at

\* degrees (in thousandths) the bearing turned forward from o to p
BearingAdvance(o, p) == (p.bearing - o.bearing) % 360000

\* C2: once dispose() has been called no frame callback applies a pose and no
\* call, start() included, schedules a frame callback.
C2_DisposeIsFinal ==
    [][hist.disposed => (camera' = camera /\ rafQueue' \subseteq rafQueue)]_vars

\* C3: in steady orbit the bearing a pose is resolved with lies in [0, 360),
\* whatever bearing the map reported when the orbit began.
C3_SteadyBearing ==
    [][(FrameApplied /\ InSteadyOrbit(orbit')
          /\ orbit.cls \in {"OrbitController", "CinematicOrbit"})
       => (0 <= camera'.bearing /\ camera'.bearing < 360000)]_vars

orbitSpeedOf(cls) == IF cls = "OrbitController" THEN OC_orbitSpeed ELSE CAM_orbitSpeed

\* C4: the first frame after the resume() that ends a pause turns the bearing
\* of OrbitController and OrbitCamera by at most orbitSpeed times the time
\* since the step before it, however long the pause lasted.
C4_ResumeNoJump ==
    [][(hist.resume = "resumed" /\ hist'.resume = "framed"
          /\ orbit.cls \in {"OrbitController", "OrbitCamera"})
       => BearingAdvance(orbit, orbit') <= orbitSpeedOf(orbit.cls) * (now' - now)]_vars

\* an OrbitController paused, left without callbacks for a while, resumed, and
\* its next frame has run
C4_Witness ==
    /\ orbit.cls = "OrbitController" /\ InSteadyOrbit(orbit) /\ ~orbit.isPaused
    /\ hist.resume = "framed"
    /\ camera.at = now /\ now > OC_maxWait + IdlePeriod

\* C5: pause() twice is pause() once and a single resume() ends it; a frame of
\* a controller paused in steady orbit leaves the bearing as it was.
C5_PauseHolds ==
    [][/\ pause(pause(orbit)) = pause(orbit)
       /\ ~resume(pause(pause(orbit))).isPaused
       /\ (FrameApplied /\ orbit.isPaused /\ InSteadyOrbit(orbit))
             => orbit'.bearing = orbit.bearing]_vars

\* a CinematicOrbit paused in steady orbit whose frame has just run
C5_Witness ==
    /\ orbit.cls = "CinematicOrbit" /\ InSteadyOrbit(orbit) /\ orbit.isPaused
    /\ camera.applied /\ camera.at = now /\ camera.bearing = orbit.bearing
    /\ orbit.bearing > 0

\* the radius r2 that follows r1 lies on the way from r1 to the target and
\* stops short of it
ShortOf(r1, r2, target) ==
    IF target > r1 THEN r1 <= r2 /\ r2 < target
    ELSE IF target < r1 THEN target < r2 /\ r2 <= r1
    ELSE r2 = r1

\* a frame of OrbitController or CinematicOrbit in steady orbit, not paused
SteadyFrame ==
    /\ FrameApplied
    /\ orbit.cls \in {"OrbitController", "CinematicOrbit"}
    /\ InSteadyOrbit(orbit) /\ ~orbit.isPaused

\* the target radius the frame that led to this step blended toward
TargetRadiusAfter ==
    IF orbit.cls = "OrbitController" THEN OC_radiusForZoom(host'.zoom)
    ELSE orbit'.targetRadius

\* C6 as stated: in steady orbit, not paused, a frame that finds the zoom
\* changed by any amount blends toward the radius of the new zoom, and the
\* radius covers less than the whole gap to it.
C6_TargetIsRadiusOfZoom ==
    [][SteadyFrame
       => /\ orbit.cls = "CinematicOrbit"
                => orbit'.targetRadius = computeRadiusForZoom(host'.zoom)
          /\ ShortOf(orbit.radius, orbit'.radius, TargetRadiusAfter)]_vars

\* C6 amended: in steady orbit, not paused, OrbitController blends toward the
\* radius of the zoom the frame reads; CinematicOrbit blends toward the radius
\* of the zoom it last took, which the frame replaces by the zoom it reads
\* when they differ by more than 0.1 and which is within 0.1 of it otherwise;
\* the radius covers less than the whole gap to the target.
C6_TargetTracksZoom ==
    [][SteadyFrame
       => /\ orbit.cls = "CinematicOrbit"
                => /\ orbit'.targetRadius = computeRadiusForZoom(orbit'.lastZoom)
                   /\ Abs(host'.zoom - orbit'.lastZoom) <= CIN_zoomThreshold
                   /\ orbit'.lastZoom = IF Abs(host'.zoom - orbit.lastZoom) > CIN_zoomThreshold
                                        THEN host'.zoom ELSE orbit.lastZoom
          /\ ShortOf(orbit.radius, orbit'.radius, TargetRadiusAfter)]_vars

\* a CinematicOrbit in steady orbit that has taken a zoom other than the one
\* it started with and whose radius is under way to the new target
C6_Witness ==
    /\ orbit.cls = "CinematicOrbit" /\ InSteadyOrbit(orbit) /\ ~orbit.isPaused
    /\ camera.applied /\ camera.at = now
    /\ host.zoom = 85 /\ orbit.lastZoom = 85
    /\ orbit.targetRadius = maxRadius
    /\ orbit.radius > computeRadiusForZoom(141) /\ orbit.radius < maxRadius

\* largest share of the gap to the target a frame covers, in thousandths
smoothingOf(cls) == IF cls = "OrbitController" THEN OC_maxSmoothing ELSE CIN_radiusSmoothing

\* C7: from start() onward, whatever the zoom does, every frame leaves the
\* radius within [minRadius, maxRadius] and changes it by no more than the
\* smoothing step.
C7_RadiusBounded ==
    [][(FrameApplied /\ orbit.cls \in {"OrbitController", "CinematicOrbit"})
       => /\ minRadius <= orbit'.radius /\ orbit'.radius <= maxRadius
          /\ Abs(orbit'.radius - orbit.radius) * 1000
                <= smoothingOf(orbit.cls) * (maxRadius - minRadius)]_vars

\* C8: a terrain wait is bounded: a pending terrain poll is never due later
\* than the maximum wait window plus one poll interval after the wait began,
\* for the controller's own wait as for the wait of the view that creates the
\* OrbitCamera.
C8_TerrainWaitBounded ==
    \A tm \in timers :
        tm.kind \in {"poll", "waitForTerrain"} =>
            tm.due - tm.t0 <= OC_maxWait + OC_pollInterval

\* C9: once the cleanup of the view has run, no step creates, starts or
\* resumes an orbit object, requests a frame callback or moves the camera.
C9_NothingAfterCleanup ==
    [][hist.cleaned =>
          /\ ~view'.orbitRef
          /\ rafQueue' \subseteq rafQueue
          /\ camera' = camera
          /\ orbit' = orbit]_vars

IdleTimers(pending) == {tm \in pending : tm.kind = "idle"}

\* a step in which the view accepts a user event
InteractionStep == hist'.lastInteraction # hist.lastInteraction

\* a step in which the pending idle timer fires
IdleFired ==
    /\ IdleTimers(timers) # {}
    /\ IdleTimers(timers') = {}
    /\ hist'.cleaned = hist.cleaned

\* C10: at most one idle timer is pending; a user event pauses or stops the
\* orbit and leaves exactly one idle timer, armed at the event for the idle
\* period of the variant; the idle timer fires only when that period has
\* elapsed since it was armed, with no user event in between.
C10_InteractionGate ==
    [][/\ Cardinality(IdleTimers(timers')) <= 1
       /\ InteractionStep =>
            /\ IdleTimers(timers') =
                  {Timer(view'.idleTimeout, "idle",
                         now' + idlePeriodOf(view.variant), now')}
            /\ view.variant # "closure" /\ view.orbitRef => orbit'.isPaused
            /\ view.variant = "closure" => rafQueue' = {}
       /\ IdleFired =>
            \A tm \in IdleTimers(timers) :
                /\ now' >= tm.t0 + idlePeriodOf(view.variant)
                /\ hist.lastInteraction <= tm.t0]_vars

\* the idle timer has resumed the orbit a full idle period after a user event
C10_Witness ==
    /\ hist.byTimer
    /\ hist.lastInteraction # NoValue
    /\ now >= hist.lastInteraction + idlePeriodOf(view.variant)
    /\ view.orbitRef
    /\ ~orbit.isPaused
    /\ rafQueue # {}

\* the radius the zoom read by the frame that led to this step asks for
RadiusOfReadZoom ==
    CASE orbit.cls = "OrbitController" -> OC_radiusForZoom(host'.zoom)
      [] orbit.cls = "OrbitCamera" -> CAM_radiusForZoom(host'.zoom)
      [] OTHER -> computeRadiusForZoom(orbit'.lastZoom)

\* a frame of a controller paused in steady orbit
PausedFrame ==
    /\ FrameApplied
    /\ orbit.cls \in {"OrbitController", "OrbitCamera", "CinematicOrbit"}
    /\ InSteadyOrbit(orbit) /\ orbit.isPaused

\* C11: a frame of a controller paused in steady orbit applies a pose, leaves
\* the bearing as it was and keeps tracking the zoom: the zoom a
\* CinematicOrbit holds is within 0.1 of the zoom of the map, and the radius
\* moves toward the radius of that zoom.
C11_PausedTracksZoom ==
    [][PausedFrame
       => /\ camera'.applied
          /\ orbit'.bearing = orbit.bearing
          /\ orbit.cls = "CinematicOrbit"
                => /\ Abs(host'.zoom - orbit'.lastZoom) <= CIN_zoomThreshold
                   /\ orbit'.targetRadius = computeRadiusForZoom(orbit'.lastZoom)
          /\ ShortOf(orbit.radius, orbit'.radius, RadiusOfReadZoom)]_vars

\* a step that is a frame in which a host call failed
FaultStep == hist'.faultAt # hist.faultAt

\* C12: a frame of a running controller in which getFreeCameraOptions,
\* setFreeCameraOptions, getZoom or the elevation query throws leaves the
\* controller running with its next frame requested.
C12_LoopSurvivesThrow ==
    [][(FaultStep /\ hist'.fault \in {"camera", "zoom", "elevation"})
       => /\ InLoop(orbit')
          /\ \E h \in rafQueue' : h.id = orbit'.animationFrame]_vars

\* the start of the orbit is under way in view v with timers tms pending on
\* host hst: the controller exists, or a timer or a host transition on the
\* start path is pending, or the start waits for the terrain only
StartUnderWay(v, tms, hst) ==
    \/ v.orbitRef
    \/ v.animationFrame # 0 \/ v.cameraTransitionFrame # 0
    \/ \E tm \in tms : tm.kind \in {"poll", "settle", "introDone", "delayedStart", "orbitStart"}
    \/ hst.moving
    \/ v.variant = "camera" /\ v.modelReady

\* C13: when the model load ends in an open view, with the model or without
\* it, the start of the orbit is under way.
C13_OrbitDespiteModel ==
    [][(view.loading /\ ~view'.loading /\ ~hist.cleaned)
       => StartUnderWay(view', timers', host')]_vars

\* how far the controller has come: idle, intro, steady orbit
PhaseRank(o) ==
    CASE o.cls = "OrbitController" ->
            (IF o.phase = "orbit" THEN 2 ELSE IF o.phase = "intro" THEN 1 ELSE 0)
      [] o.cls = "CinematicOrbit" ->
            (IF o.introPhase = "complete" THEN 2
             ELSE IF o.introPhase = "running" THEN 1 ELSE 0)
      [] OTHER -> 0

\* C14: no call other than dispose() moves the phase backward, and after
\* dispose() the phase never changes and the controller never runs again.
C14_PhaseForward ==
    [][/\ ~hist'.disposed => PhaseRank(orbit') >= PhaseRank(orbit)
       /\ hist.disposed => /\ PhaseRank(orbit') = PhaseRank(orbit)
                           /\ orbit'.isRunning = orbit.isRunning]_vars

\* C15: a frame of a running controller in which the elevation query throws
\* or returns NaN goes on: it applies a pose whose altitude is a number, at
\* least the cached ground elevation, and requests the next frame.
C15_SamplerNeverThrows ==
    [][(FaultStep /\ hist'.fault \in {"elevation", "nan"})
       => /\ camera'.applied /\ camera'.at = now'
          /\ camera'.camZ # NaN
          /\ camera'.camZ >= camera'.ground
          /\ \E h \in rafQueue' : h.id = orbit'.animationFrame]_vars

\* C16: the cached ground elevation changes only to a sample greater than
\* zero taken by a frame that refreshes it or by the terrain wait.
C16_GroundOnlyFromSample ==
    [][orbit'.groundElevation # orbit.groundElevation
       => orbit'.groundElevation > 0]_vars

\* a frame in which a hand-rolled intro reaches its end
IntroCompletes ==
    /\ FrameApplied
    /\ \/ /\ orbit.cls = "CinematicOrbit"
          /\ orbit.introPhase = "running" /\ orbit'.introPhase = "complete"
       \/ /\ orbit.cls = "SmoothCameraOrbit"
          /\ orbit.introProgress < 1000 /\ orbit'.introProgress = 1000

\* a frame of a hand-rolled controller in steady orbit, paused or not
HandRolledSteadyFrame ==
    /\ FrameApplied
    /\ orbit.cls \in {"CinematicOrbit", "SmoothCameraOrbit"}
    /\ InSteadyOrbit(orbit)

\* C17: the frame that ends a hand-rolled intro leaves the radius and the
\* height at their targets (the altitude at the ideal altitude of the zoom)
\* and the bearing in [0, 360); every frame of the steady orbit, the first
\* one included, then moves the radius, the height or the altitude by at
\* most one smoothing step toward the target and the bearing by at most one
\* orbit-speed step.
C17_IntroLandsOnTargets ==
    [][/\ IntroCompletes
          => /\ 0 <= orbit'.bearing /\ orbit'.bearing < 360000
             /\ camera'.bearing = orbit'.bearing
             /\ orbit.cls = "CinematicOrbit"
                   => /\ orbit'.radius = orbit'.targetRadius
                      /\ orbit'.height = orbit'.targetHeight
             /\ orbit.cls = "SmoothCameraOrbit"
                   => /\ orbit'.currentAltitude = getIdealAltitudeForZoom(host'.zoom)
                      /\ orbit'.pitch = SCO_targetPitch
       /\ HandRolledSteadyFrame
          => /\ orbit.cls = "CinematicOrbit"
                   => /\ Abs(orbit'.radius - orbit.radius) * 1000
                           <= CIN_radiusSmoothing * Abs(orbit'.targetRadius - orbit.radius)
                      /\ Abs(orbit'.height - orbit.height) * 1000
                           <= CIN_heightSmoothing * Abs(orbit'.targetHeight - orbit.height)
                      /\ BearingAdvance(orbit, orbit') <= CIN_orbitSpeed
             /\ orbit.cls = "SmoothCameraOrbit"
                   => /\ Abs(orbit'.currentAltitude - orbit.currentAltitude) * 1000
                           <= SCO_altSmoothing
                              * Abs(getIdealAltitudeForZoom(host'.zoom) - orbit.currentAltitude)
                      /\ BearingAdvance(orbit, orbit') <= SCO_orbitSpeed]_vars

\* a CinematicOrbit whose intro has just run to its end: the spiral has
\* turned by 540 degrees, which the controller holds as 180
C17_Witness ==
    /\ orbit.cls = "CinematicOrbit" /\ orbit.introPhase = "complete"
    /\ orbit.introStartTime # NoValue
    /\ camera.applied /\ camera.at = now
    /\ now - orbit.introStartTime >= CIN_introDuration
    /\ orbit.bearing = 180000
    /\ orbit.radius = orbit.targetRadius /\ orbit.height = orbit.targetHeight

\* the step in which an OrbitController starts its frame loop
LoopStarts ==
    /\ orbit.cls = "OrbitController"
    /\ orbit.phase = "intro" /\ orbit'.phase = "orbit"

\* C18: an OrbitController applies no pose before its frame loop has started,
\* and when the loop starts, after a transition of the host that ran to its
\* end or was interrupted, its bearing is the bearing of the map and its
\* radius the radius of the zoom of the map.
C18_LoopStartsWhereHostIs ==
    [][/\ (FrameApplied /\ orbit.cls = "OrbitController") => orbit.phase = "orbit"
       /\ LoopStarts
          => /\ ~host'.moving
             /\ orbit'.bearing = host'.bearing
             /\ orbit'.radius = OC_radiusForZoom(host'.zoom)]_vars

\* a frame of a hand-rolled controller whose intro is running
IntroFrame ==
    /\ FrameApplied
    /\ \/ orbit.cls = "CinematicOrbit" /\ orbit.isRunning /\ orbit.introPhase = "running"
       \/ orbit.cls = "SmoothCameraOrbit" /\ orbit.isRunning /\ orbit.introProgress < 1000

\* the controller o but for its pause flag and the handle of its next frame
ButPause(o) == [o EXCEPT !.isPaused = FALSE, !.animationFrame = 0]

\* C19: a frame of a running hand-rolled intro leaves the controller where it
\* would have left it had pause() not been called, the pause flag apart; a
\* frame of the steady orbit that finds the controller paused leaves the
\* bearing as it was.
C19_PauseWaitsForOrbit ==
    [][/\ IntroFrame
          => ButPause(orbit')
             = ButPause(tick(ButPause(orbit), now', FALSE, NoValue, NoValue, host'.zoom).o)
       /\ (HandRolledSteadyFrame /\ orbit.isPaused)
          => orbit'.bearing = orbit.bearing]_vars

\* a CinematicOrbit paused while its intro runs, whose intro has gone on
C19_Witness ==
    /\ orbit.cls = "CinematicOrbit" /\ orbit.isRunning /\ orbit.isPaused
    /\ orbit.introPhase = "running"
    /\ camera.applied /\ camera.at = now
    /\ now > orbit.introStartTime /\ orbit.introStartTime # NoValue
    /\ orbit.radius > CIN_startRadius

\* C20: at most one frame callback of the controller is pending.
C20_SingleLoop == Cardinality({h \in rafQueue : h.fn = "tick"}) <= 1

\* C21: once an OrbitController is disposed - during the terrain poll, while
\* the host easeTo runs or during the settle delay - no step takes it to phase
\* 'orbit', requests an animation frame, starts the easeTo or arms a timer, and
\* the poll is not re-armed: it ends at its next iteration
C21_DisposeCancelsStart ==
    [][(orbit.cls = "OrbitController" /\ orbit.disposed) =>
          /\ orbit'.phase # "orbit"
          /\ rafQueue' \subseteq rafQueue
          /\ timers' \subseteq timers
          /\ host'.moving => host.moving]_vars

\* disposed while the 50 ms settle timer of onMoveEnd is pending
C21_Witness ==
    /\ orbit.cls = "OrbitController" /\ orbit.disposed
    /\ \E tm \in timers : tm.kind = "settle"


\* C22: every pose the closure variant's orbit() builds with
\* buildCameraPosition puts the camera at least the safety margin above the
\* terrain at the camera's own horizontal position.
C22_ClosureClearance ==
    (camera.applied /\ camera.cls = "closure" /\ camera.radius > 0)
        => camera.camZ >= TerrainUnder(camera) + CLO_safetyMargin

\* C23: in the closure variant a frame of the camera transition and a frame
\* of the orbit loop are never pending at the same time.
C23_TransitionOrOrbit ==
    view.variant = "closure" =>
        ~(\E a \in rafQueue, b \in rafQueue : a.fn = "step" /\ b.fn = "orbit")

\* a frame of the closure variant's orbit loop is pending in queue
OrbitPending(queue) == \E h \in queue : h.fn = "orbit"

\* steps in which the map emits events without originalEvent only: an orbit
\* frame's own setFreeCameraOptions and setBearing, the end of the easeTo the
\* effect started
OwnEventStep ==
    \/ camera'.cls = "closure" /\ camera'.radius > 0 /\ camera'.at # camera.at
    \/ view.variant = "closure" /\ host.moving /\ ~host'.moving

\* C24: in the closure variant a step whose map events carry no originalEvent
\* never stops the orbit loop and never arms the idle timer.
C24_OnlyUserInputStops ==
    [][OwnEventStep =>
          /\ OrbitPending(rafQueue) => OrbitPending(rafQueue')
          /\ IdleTimers(timers') = IdleTimers(timers)]_vars

\* the orbit of the open view is paused or stopped after a user event
StoppedByUser ==
    /\ ~hist.cleaned /\ hist.lastInteraction # NoValue
    /\ IF view.variant = "closure"
       THEN view.analyzedTerrain /\ ~OrbitPending(rafQueue)
       ELSE view.orbitRef /\ orbit.isPaused

\* the orbit rotates again: the controller is not paused, the closure
\* variant's loop has a frame pending
RotatesAgain ==
    IF view.variant = "closure" THEN OrbitPending(rafQueue)
    ELSE view.orbitRef /\ ~orbit.isPaused

\* the run has reached the end of what the model follows: no handle left, or
\* a timer or a transition frame that cannot run before the clock stops
OutOfBudget ==
    \/ nextId >= HandleLimit
    \/ \E tm \in timers :
          \/ tm.due > MaxTime
          \/ tm.kind = "poll" /\ \E late \in BusyDelays : Max(now, tm.due) + late > MaxTime
    \/ \E h \in rafQueue : h.fn = "step" /\ now + IdleGap > MaxTime

\* C25: in a view that stays open, once a user event has paused or stopped
\* the orbit, the orbit rotates again: the idle timer fires and resumes the
\* controller or restarts the loop.
C25_OrbitResumes == StoppedByUser ~> (RotatesAgain \/ hist.cleaned \/ OutOfBudget)

\* poses were applied, a user event came, the idle period elapsed and the
\* idle timer restarted the orbit, which rotates again
C25_Witness ==
    /\ ~hist.cleaned /\ hist.lastInteraction # NoValue /\ hist.byTimer
    /\ now >= hist.lastInteraction + idlePeriodOf(view.variant)
    /\ RotatesAgain
    /\ camera.applied /\ camera.at < hist.lastInteraction

\* a step in which performIntroAnimation() is called: it registers its
\* moveend handler
IntroStarts ==
    /\ view'.variant = "camera"
    /\ \E reg \in host'.moveend \ host.moveend : reg.fn = "introMoveEnd"

\* what is under way between performIntroAnimation() and the OrbitCamera: the
\* registered moveend handlers, the pending 100 ms timers, the camera created
IntroTokens ==
    Cardinality({reg \in host.moveend : reg.fn = "introMoveEnd"})
    + Cardinality({tm \in timers : tm.kind = "introDone"})
    + (IF view.orbitRef THEN 1 ELSE 0)

\* C26: in the OrbitCamera variant performIntroAnimation() is called only in
\* the step in which the second of terrainReady and modelReady becomes true,
\* hence at most once, and at most one intro, 100 ms timer or OrbitCamera
\* exists at any time; the camera runs a single frame loop.
C26_IntroOnce ==
    [][view'.variant = "camera" =>
          /\ IntroStarts => /\ view'.terrainReady /\ view'.modelReady
                            /\ ~(view.terrainReady /\ view.modelReady)
          /\ IntroTokens' <= 1
          /\ Cardinality({h \in rafQueue' : h.fn = "tick"}) <= 1]_vars

\* the OrbitCamera the intro handed over to, running
C26_Witness ==
    /\ view.variant = "camera" /\ view.terrainReady /\ view.modelReady
    /\ view.orbitRef /\ orbit.cls = "OrbitCamera" /\ orbit.isRunning
    /\ camera.applied

\* the longest time step a steady frame of OrbitController and OrbitCamera
\* turns the bearing by: Math.min(dt, 0.1), in milliseconds
DtCap == 100

\* C27: every steady-orbit frame of OrbitController and OrbitCamera turns the
\* bearing by at most orbitSpeed times 0.1 s, however long ago the frame
\* before it ran, and the first frame after start() or resume() turns it by 0.
C27_BearingStepCapped ==
    [][(FrameApplied /\ InSteadyOrbit(orbit)
          /\ orbit.cls \in {"OrbitController", "OrbitCamera"})
       => /\ BearingAdvance(orbit, orbit') <= orbitSpeedOf(orbit.cls) * DtCap
          /\ hist.resume \in {"started", "resumed"} => orbit'.bearing = orbit.bearing]_vars

\* a steady frame has turned the bearing by the whole cap and by no more: it
\* ran more than 0.1 s after the frame before it
C27_Witness ==
    /\ orbit.cls \in {"OrbitController", "OrbitCamera"}
    /\ InSteadyOrbit(orbit) /\ ~orbit.isPaused
    /\ camera.applied /\ camera.at = now
    /\ hist.resume = "none"
    /\ \E b \in StartBearings \cup HostBearings :
          (orbit.bearing - b) % 360000 = orbitSpeedOf(orbit.cls) * DtCap

\* rawProgress of the intro frame that ran at time t and left the controller o
rawProgressAt(o, t) ==
    IF o.cls = "SmoothCameraOrbit" THEN o.introProgress
    ELSE Min(((t - o.introStartTime) * 1000) \div CIN_introDuration, 1000)

\* the controller o is at the pose its intro starts from
AtIntroStartPose(o) ==
    IF o.cls = "SmoothCameraOrbit"
    THEN o.pitch = SCO_startPitch /\ o.currentAltitude = SCO_startAlt
    ELSE o.radius = CIN_startRadius /\ o.height = CIN_startHeight /\ o.bearing = 0

\* the intro of the controller o has still to run or to finish
IntroPending(o) ==
    IF o.cls = "SmoothCameraOrbit" THEN o.introProgress < 1000
    ELSE o.introPhase = "running"

\* C28: the first frame after a start() of CinematicOrbit and SmoothCameraOrbit
\* has rawProgress 0 and applies the intro's start pose, whatever time passed
\* since start(), and the intro's start time, once captured, never changes.
C28_IntroFromFirstFrame ==
    [][/\ (FrameApplied /\ hist.resume = "started" /\ IntroPending(orbit)
            /\ orbit.cls \in {"CinematicOrbit", "SmoothCameraOrbit"})
          => (rawProgressAt(orbit', now') = 0 /\ AtIntroStartPose(orbit'))
       /\ (orbit.cls \in {"CinematicOrbit", "SmoothCameraOrbit"}
            /\ orbit.introStartTime # NoValue)
          => orbit'.introStartTime = orbit.introStartTime]_vars

\* C29: easeOutQuart, easeInOutSine, easeSpiral and easeInOutCubic map 0 to 0
\* and 1 to 1, stay within [0,1] and never decrease, checked at every progress
\* up to the one an intro frame has reached, and easeSpiral makes no jump at
\* 0.3 and at 0.7: it steps across each by no more than it steps right after.
C29_EasingsMonotone ==
    [][(FrameApplied /\ IntroPending(orbit)
          /\ orbit.cls \in {"CinematicOrbit", "SmoothCameraOrbit"})
       => LET q == rawProgressAt(orbit', now')
          IN  /\ easeOutQuart(0) = 0 /\ easeOutQuart(1000) = 1000
              /\ easeInOutSine(0) = 0 /\ easeInOutSine(1000) = 1000
              /\ easeSpiral(0) = 0 /\ easeSpiral(1000) = 1000
              /\ easeInOutCubic(0) = 0 /\ easeInOutCubic(1000) = 1000
              /\ \A t \in 0..q :
                    /\ easeOutQuart(t) \in 0..1000
                    /\ easeInOutSine(t) \in 0..1000
                    /\ easeSpiral(t) \in 0..1000
                    /\ easeInOutCubic(t) \in 0..1000
              /\ \A t \in 0..(q - 1) :
                    /\ easeOutQuart(t) <= easeOutQuart(t + 1)
                    /\ easeInOutSine(t) <= easeInOutSine(t + 1)
                    /\ easeSpiral(t) <= easeSpiral(t + 1)
                    /\ easeInOutCubic(t) <= easeInOutCubic(t + 1)
              /\ \A b \in {300, 700} :
                    q > b => easeSpiral(b) - easeSpiral(b - 1)
                                <= easeSpiral(b + 1) - easeSpiral(b) + 1]_vars

\* an intro frame of a CinematicOrbit has run in the last segment of easeSpiral
\* and turned the bearing to what the curve gives
C29_Witness ==
    /\ orbit.cls = "CinematicOrbit" /\ orbit.isRunning /\ orbit.introPhase = "running"
    /\ camera.applied /\ camera.at = now
    /\ rawProgressAt(orbit, now) \in 701..999
    /\ orbit.bearing = easeSpiral(rawProgressAt(orbit, now)) * CIN_introSweep

\* C30: after every steady-orbit frame of a CinematicOrbit that is not paused,
\* targetRadius is the radius of lastZoom, targetHeight the height of
\* targetRadius, and the zoom the frame read is within 0.1 of lastZoom; a zoom
\* that has drifted more than 0.1 from lastZoom, in however small steps,
\* becomes lastZoom.
C30_ZoomTracked ==
    [][(FrameApplied /\ orbit.cls = "CinematicOrbit" /\ InSteadyOrbit(orbit)
          /\ ~orbit.isPaused)
       => /\ orbit'.targetRadius = computeRadiusForZoom(orbit'.lastZoom)
          /\ orbit'.targetHeight = computeHeightForRadius(orbit'.targetRadius)
          /\ Abs(host'.zoom - orbit'.lastZoom) <= CIN_zoomThreshold
          /\ Abs(host'.zoom - orbit.lastZoom) > CIN_zoomThreshold
             => orbit'.lastZoom = host'.zoom]_vars

\* two zoom steps of 0.1 from the zoom the controller started at have been
\* taken up: the target is the radius of the zoom reached
C30_Witness ==
    /\ orbit.cls = "CinematicOrbit" /\ InSteadyOrbit(orbit) /\ ~orbit.isPaused
    /\ camera.applied /\ camera.at = now
    /\ host.zoom = InitialZoom + 2 * CIN_zoomThreshold
    /\ orbit.lastZoom = host.zoom
    /\ orbit.targetRadius = computeRadiusForZoom(host.zoom)
    /\ orbit.targetRadius # computeRadiusForZoom(InitialZoom)

====
